---- MODULE Spec2Model ----
(***************************************************************************)
(* Model of the traktor_tsi binary decoding engine: the big-endian reader  *)
(* BER (beio.py), the resynchronizing FrameWalker (frames.py) and the      *)
(* TsiParser record decoder (parser.py).                                   *)
(*                                                                         *)
(* A buffer is a sequence of bytes (0..255).  Python offsets are 0-based,  *)
(* so byte `off` of the buffer is data[off + 1].                           *)
(*                                                                         *)
(* Python integers are unbounded.  Every integer the decoder reads from    *)
(* the wire or stores in a record is kept as a two-limb value              *)
(* [hi, lo] = hi * 65536 + lo with lo in 0..65535, so that 0xFFFFFFFF and  *)
(* -1 are different values and nothing wraps.  Lengths, counts and sizes   *)
(* are only ever compared with offsets of the buffer; AsLen turns them     *)
(* into offsets, with every value of 65536 or more standing for "beyond    *)
(* any buffer" (buffers of the model are far shorter than 65536 bytes).    *)
(***************************************************************************)
EXTENDS Integers, Sequences, FiniteSets, TLC

VARIABLES
    data,        \* the immutable input: the buffer (blob); under "name" the name
    entry,       \* "walk": FrameWalker.walk(data); "parse": TsiParser.parse(data);
                 \* "name": parse_binding_name(data); "read": reads on a BER
    cast_enums,  \* TsiParser._cast_enums
    stack,       \* the active walk() generators, outermost first: [start, off, end]
    yielded,     \* the FrameNodes yielded so far, in order
    rows,        \* TsiParser.parse: the rows list
    status,      \* "running", "returned" or "raised"
    input,       \* how the buffer was built (never read by the program)
    result       \* entries "name" and "read": what the last call returned

vars == <<data, entry, cast_enums, stack, yielded, rows, status, input, result>>

-----------------------------------------------------------------------------
(* Integers as limbs *)

Limb == 65536

\* The integer n (small enough for n itself to be written) as limbs.
I(n) == [hi |-> n \div Limb, lo |-> n % Limb]

\* Optional values: None is <<>>, a present value v is <<v>>.
None == <<>>
Some(v) == <<v>>

Min(a, b) == IF a < b THEN a ELSE b
Max(a, b) == IF a > b THEN a ELSE b

\* A length, count or size as an offset: exact below 65536, else beyond any buffer.
AsLen(u) == IF u.hi = 0 THEN u.lo ELSE Limb

-----------------------------------------------------------------------------
(* beio.py: BER *)

\* Python slicing data[a:b] for 0 <= a: clamped to the buffer, never raising.
Slice(d, a, b) == SubSeq(d, Min(a, Len(d)) + 1, Min(b, Len(d)))

\* bytes.decode("ascii", errors="ignore"): bytes above 127 are dropped.
RECURSIVE decode_ascii(_)
decode_ascii(b) ==
    IF b = <<>> THEN <<>>
    ELSE (IF Head(b) < 128 THEN <<Head(b)>> ELSE <<>>) \o decode_ascii(Tail(b))

\* struct.unpack_from(">I", data, off): raises when fewer than 4 bytes are left
\* in the whole buffer (the reader's own end is not consulted).
BER_u32_raises(d, off) == off + 4 > Len(d)

BER_u32(d, off) ==
    [hi |-> d[off + 1] * 256 + d[off + 2], lo |-> d[off + 3] * 256 + d[off + 4]]

\* The header is 4 tag bytes and a 4-byte big-endian payload length.
HeaderLen == 8

mut_read_frame_header_no_bounds(d, off, end) ==
    LET fid  == decode_ascii(Slice(d, off, off + 4))
        off1 == off + 4
    IN  IF BER_u32_raises(d, off1)
        THEN [exc |-> TRUE, off |-> off1, fid |-> fid, pstart |-> 0, pend |-> 0]
        ELSE [exc |-> FALSE, off |-> off1 + 4, fid |-> fid,
              pstart |-> off1 + 4, pend |-> off1 + 4 + AsLen(BER_u32(d, off1))]

\* read_frame_header(r) for a reader at `off` with end `end`.  `off` in the
\* result is where the reader's cursor is left, also when the call raises.
read_frame_header(d, off, end) ==
    LET fid  == decode_ascii(Slice(d, off, off + 4))
        off1 == off + 4
    IN  IF BER_u32_raises(d, off1)
        THEN [exc |-> TRUE, off |-> off1, fid |-> fid, pstart |-> 0, pend |-> 0]
        ELSE LET size == AsLen(BER_u32(d, off1))
                 off2 == off1 + 4
             IN  IF off2 + size > end
                 THEN [exc |-> TRUE, off |-> off2, fid |-> fid, pstart |-> 0, pend |-> 0]
                 ELSE [exc |-> FALSE, off |-> off2, fid |-> fid,
                       pstart |-> off2, pend |-> off2 + size]

-----------------------------------------------------------------------------
(* frames.py *)

ASCII_OK == (48..57) \cup (65..90) \cup {95} \cup (97..122)

looks_like_id(b) == Len(b) = 4 /\ \A i \in 1..4 : b[i] \in ASCII_OK

RECURSIVE count_children_from(_, _, _, _)
count_children_from(d, off, end, count) ==
    IF off + HeaderLen <= end /\ looks_like_id(Slice(d, off, off + 4))
    THEN LET h == read_frame_header(d, off, end)
         IN  IF h.exc THEN count
             ELSE count_children_from(d, h.pend, end, count + 1)
    ELSE count

mut_count_children_first_only(d, start, end) ==
    Min(1, count_children_from(d, start, end, 0))

\* FrameWalker._count_children
count_children(d, start, end) == count_children_from(d, start, end, 0)

-----------------------------------------------------------------------------
(* Text and floats as the decoder sees them *)

\* The 16-bit code units of a big-endian byte string; an odd last byte is
\* dropped (errors="ignore").
RECURSIVE utf16_units(_)
utf16_units(b) ==
    IF Len(b) < 2 THEN <<>>
    ELSE <<b[1] * 256 + b[2]>> \o utf16_units(SubSeq(b, 3, Len(b)))

IsHighSurrogate(u) == u \in 55296..56319
IsLowSurrogate(u) == u \in 56320..57343

\* errors="ignore": an unpaired surrogate is dropped, a pair is kept.
RECURSIVE drop_lone_surrogates(_)
drop_lone_surrogates(us) ==
    IF us = <<>> THEN <<>>
    ELSE IF IsHighSurrogate(us[1])
         THEN IF Len(us) >= 2 /\ IsLowSurrogate(us[2])
              THEN <<us[1], us[2]>> \o drop_lone_surrogates(SubSeq(us, 3, Len(us)))
              ELSE drop_lone_surrogates(Tail(us))
         ELSE IF IsLowSurrogate(us[1])
              THEN drop_lone_surrogates(Tail(us))
              ELSE <<us[1]>> \o drop_lone_surrogates(Tail(us))

\* raw.decode("utf-16-be", errors="ignore"): a string is its code units.
decode_utf16be(b) == drop_lone_surrogates(utf16_units(b))

\* A float32 is kept as its bit pattern (limbs).  math.isnan(v):
IsNaN(f) ==
    LET h == f.hi % 32768
    IN  h \div 128 = 255 /\ (h % 128 # 0 \/ f.lo # 0)

\* abs(v) < 1e-20: the smallest float32 that is not below 1e-20 is 0x1E3CE509.
IsTiny(f) ==
    LET h == f.hi % 32768
    IN  h < 7740 \/ (h = 7740 /\ f.lo < 58633)

\* _clean_f (parser.py), on an optional float
clean_f(v) ==
    IF v = None THEN None
    ELSE IF IsNaN(v[1]) \/ IsTiny(v[1]) THEN None
    ELSE v

mut_to_s32_unsigned(u) == u

\* _to_s32 (parser.py), on an optional integer
to_s32(u) ==
    IF u = None THEN None
    ELSE IF u[1].hi > 32767                      \* u > 0x7FFFFFFF
         THEN Some([hi |-> u[1].hi - Limb, lo |-> u[1].lo])   \* u - 0x100000000
         ELSE u

-----------------------------------------------------------------------------
(* enums.py *)

DeviceTarget == {I(n) : n \in 0..4}
MidiEncoderMode == {I(0), I(1)}
MappingTargetDeck == {I(n) : n \in -1..15}
InteractionMode == {I(n) : n \in 1..8}
ControllerType == {I(0), I(1), I(2), I(65535)}
MappingResolution ==
    {I(1015021568), I(1031798784), I(1040187392), I(1056964608)}
MappingType == {I(0), I(1)}

MappingType_IN == I(0)
MappingType_OUT == I(1)
InteractionMode_DIRECT == I(3)

\* enum_cls(value): the member, or ValueError (here None).
EnumOf(enum_cls, value) == IF value \in enum_cls THEN Some(value) ELSE None

-----------------------------------------------------------------------------
(* Frame tags *)

TagDEVI == <<68, 69, 86, 73>>
TagDDAT == <<68, 68, 65, 84>>
TagDDIF == <<68, 68, 73, 70>>
TagDDDC == <<68, 68, 68, 67>>
TagDDCI == <<68, 68, 67, 73>>
TagDDCO == <<68, 68, 67, 79>>
TagDCDT == <<68, 67, 68, 84>>
TagDDCB == <<68, 68, 67, 66>>
TagDCBM == <<68, 67, 66, 77>>
TagCMAS == <<67, 77, 65, 83>>
TagCMAI == <<67, 77, 65, 73>>
TagCMAD == <<67, 77, 65, 68>>

-----------------------------------------------------------------------------
(* models.py: MappingRow.  Every defaulted field starts as None. *)

RowDefaults ==
    [device_name_raw_hex |-> None, mapping_type |-> None,
     midi_note |-> None, midi_note_raw_hex |-> None,
     midi_channel |-> None, midi_event |-> None,
     midi_number |-> None, midi_note_name |-> None,
     midi_encoder_mode |-> None, midi_default_velocity |-> None,
     midi_control_id |-> None,
     controller_type |-> None, interaction_mode |-> None, deck_scope |-> None,
     auto_repeat |-> None, invert |-> None, soft_takeover |-> None,
     rotary_sensitivity |-> None, rotary_acceleration |-> None,
     set_value_to |-> None,
     mod1_id |-> None, mod1_val |-> None, mod2_id |-> None, mod2_val |-> None,
     led_min_controller |-> None, led_max_controller |-> None,
     led_min_midi |-> None, led_max_midi |-> None,
     led_invert |-> None, led_blend |-> None,
     resolution_raw |-> None, comment |-> None, comment_raw_hex |-> None,
     mapping_type_raw |-> None, controller_type_raw |-> None,
     interaction_mode_raw |-> None, deck_scope_raw |-> None,
     resolution_dword |-> None]

\* MappingRow(device_name=..., device_target=..., traktor_control_id=...,
\* midi_binding_id=..., **given): the required fields, then the given ones
\* over the defaults.
MappingRow(device_name, device_target, traktor_control_id, midi_binding_id, given) ==
    [device_name |-> device_name, device_target |-> device_target,
     traktor_control_id |-> traktor_control_id,
     midi_binding_id |-> midi_binding_id] @@ given @@ RowDefaults

-----------------------------------------------------------------------------
(* midi.py: binding names.  Text is a sequence of code units; the          *)
(* operators follow Python for code units below 128 (ASCII).               *)

\* str.isspace() for ASCII: tab, LF, VT, FF, CR, FS, GS, RS, US, space
IsSpace(c) == c \in (9..13) \cup (28..32)
IsDigit(c) == c \in 48..57
IsHexDigit(c) == c \in (48..57) \cup (65..70) \cup (97..102)

\* str.strip()
RECURSIVE lstrip(_)
lstrip(s) == IF s # <<>> /\ IsSpace(Head(s)) THEN lstrip(Tail(s)) ELSE s

RECURSIVE rstrip(_)
rstrip(s) ==
    IF s # <<>> /\ IsSpace(s[Len(s)]) THEN rstrip(SubSeq(s, 1, Len(s) - 1)) ELSE s

strip(s) == rstrip(lstrip(s))

\* str.upper()
upper(s) == [i \in 1..Len(s) |-> IF s[i] \in 97..122 THEN s[i] - 32 ELSE s[i]]

\* str.split("."): the segments between the dots, `cur` being the one open
RECURSIVE split_from(_, _, _)
split_from(s, cur, acc) ==
    IF s = <<>> THEN Append(acc, cur)
    ELSE IF Head(s) = 46 THEN split_from(Tail(s), <<>>, Append(acc, cur))
    ELSE split_from(Tail(s), Append(cur, Head(s)), acc)

split(s) == split_from(s, <<>>, <<>>)

DigitValue(c) ==
    IF c \in 48..57 THEN c - 48
    ELSE IF c \in 65..70 THEN c - 55
    ELSE c - 87

\* The digits of an int() literal: one or more digits of the base, single
\* underscores allowed between two digits
DigitsOk(s, base) ==
    /\ s # <<>>
    /\ \A i \in 1..Len(s) :
          \/ (IF base = 16 THEN IsHexDigit(s[i]) ELSE IsDigit(s[i]))
          \/ /\ s[i] = 95
             /\ 1 < i /\ i < Len(s)
             /\ s[i - 1] # 95 /\ s[i + 1] # 95

RECURSIVE DigitsValue(_, _, _)
DigitsValue(s, base, acc) ==
    IF s = <<>> THEN acc
    ELSE IF Head(s) = 95 THEN DigitsValue(Tail(s), base, acc)
    ELSE DigitsValue(Tail(s), base, acc * base + DigitValue(Head(s)))

\* The part of an int() literal after its sign: for base 16 an optional
\* 0x or 0X prefix, after which one underscore may stand before the digits
after_prefix(s, base) ==
    IF base = 16 /\ Len(s) >= 2 /\ s[1] = 48 /\ s[2] \in {88, 120}
    THEN IF Len(s) >= 3 /\ s[3] = 95 THEN SubSeq(s, 4, Len(s)) ELSE SubSeq(s, 3, Len(s))
    ELSE s

\* int(text) and int(text, 16): None for ValueError, else Some(value)
int_of(text, base) ==
    LET s == strip(text)
        neg == s # <<>> /\ s[1] = 45
        body == after_prefix(IF s # <<>> /\ s[1] \in {43, 45} THEN Tail(s) ELSE s, base)
    IN  IF DigitsOk(body, base)
        THEN Some(IF neg THEN 0 - DigitsValue(body, base, 0)
                  ELSE DigitsValue(body, base, 0))
        ELSE None

\* _NOTE_NAME_RE = ^([A-Ga-g])([#b])?(-?\d+)$ : the groups, or None
note_name_match(s) ==
    IF Len(s) < 2 \/ s[1] \notin (65..71) \cup (97..103) THEN None
    ELSE LET acc == IF s[2] \in {35, 98} THEN <<s[2]>> ELSE <<>>
             oct == SubSeq(s, 2 + Len(acc), Len(s))
             digits == IF oct # <<>> /\ oct[1] = 45 THEN Tail(oct) ELSE oct
         IN  IF digits # <<>> /\ (\A i \in 1..Len(digits) : IsDigit(digits[i]))
                /\ s[Len(s)] # 10
             THEN Some([letter |-> <<s[1]>>, accidental |-> acc, octave |-> oct])
             ELSE None

\* _SEMITONE
SEMITONE ==
    (<<67>> :> 0) @@ (<<67, 35>> :> 1) @@ (<<68, 98>> :> 1)
    @@ (<<68>> :> 2) @@ (<<68, 35>> :> 3) @@ (<<69, 98>> :> 3)
    @@ (<<69>> :> 4)
    @@ (<<70>> :> 5) @@ (<<70, 35>> :> 6) @@ (<<71, 98>> :> 6)
    @@ (<<71>> :> 7) @@ (<<71, 35>> :> 8) @@ (<<65, 98>> :> 8)
    @@ (<<65>> :> 9) @@ (<<65, 35>> :> 10) @@ (<<66, 98>> :> 10)
    @@ (<<66>> :> 11)

\* _note_name_to_number once the pattern matched with groups m
number_of_match(m) ==
    IF upper(m.letter) \o m.accidental \notin DOMAIN SEMITONE THEN None
    ELSE Some((int_of(m.octave, 10)[1] + 1) * 12
              + SEMITONE[upper(m.letter) \o m.accidental])

\* _note_name_to_number
note_name_to_number(note_name) ==
    IF note_name_match(note_name) = None THEN None
    ELSE number_of_match(note_name_match(note_name)[1])

\* An Optional[int] as the records keep it
AsInt(n) == IF n = None THEN None ELSE Some(I(n[1]))

EventNOTE == <<78, 79, 84, 69>>
EventCC == <<67, 67>>
EventCONTROL == <<67, 79, 78, 84, 82, 79, 76>>

NoBinding == [ch |-> None, event |-> None, number |-> None, note_name |-> None]

mut_numeric_tail_hex_first(ch, event, tail) ==
    IF int_of(tail, 16) # None
    THEN [ch |-> ch, event |-> Some(event), number |-> AsInt(int_of(tail, 16)),
          note_name |-> None]
    ELSE [ch |-> ch, event |-> Some(event), number |-> None, note_name |-> Some(tail)]

\* midi.py 71-77 and 80-86: the tail as decimal, then hexadecimal, else
\* kept as the note name
numeric_tail(ch, event, tail) ==
    IF int_of(tail, 10) # None
    THEN [ch |-> ch, event |-> Some(event), number |-> AsInt(int_of(tail, 10)),
          note_name |-> None]
    ELSE IF int_of(tail, 16) # None
    THEN [ch |-> ch, event |-> Some(event), number |-> AsInt(int_of(tail, 16)),
          note_name |-> None]
    ELSE [ch |-> ch, event |-> Some(event), number |-> None, note_name |-> Some(tail)]

\* midi.py 60: the event the name's second segment stands for
event_label(event_raw) ==
    IF event_raw = EventNOTE THEN EventNOTE
    ELSE IF event_raw \in {EventCC, EventCONTROL} THEN EventCC
    ELSE event_raw

\* midi.py 64-86, with the channel and the segments in hand: a NOTE takes
\* the pitch first; every other event leaves through the block of lines
\* 79-86, which returns the literal "CC"
binding_of_parts(ch, event_raw, tail) ==
    IF event_label(event_raw) = EventNOTE
    THEN IF note_name_to_number(tail) # None
         THEN [ch |-> ch, event |-> Some(EventNOTE),
               number |-> AsInt(note_name_to_number(tail)), note_name |-> Some(tail)]
         ELSE numeric_tail(ch, EventNOTE, tail)
    ELSE numeric_tail(ch, EventCC, tail)

\* parse_binding_name(name), name an Optional[str]
parse_binding_name(name) ==
    IF name = None \/ Len(name[1]) < 2 \/ SubSeq(name[1], 1, 2) # <<67, 104>>
    THEN NoBinding
    ELSE IF Len(split(name[1])) < 3 THEN NoBinding
    ELSE binding_of_parts(
             AsInt(int_of(SubSeq(split(name[1])[1], 3, Len(split(name[1])[1])), 10)),
             upper(strip(split(name[1])[2])),
             strip(split(name[1])[3]))

-----------------------------------------------------------------------------
(* parser.py: one mapping *)

\* The per-device context handed down to every mapping: ctx.device_name,
\* ctx.device_name_raw_hex, ctx.device_target, ctx.midi_bindings,
\* ctx.midi_bindings_raw_hex, ctx.midi_defs, ctx.cast_enums.

\* dict.get(key)
DictGet(dict, key) == IF key \in DOMAIN dict THEN Some(dict[key]) ELSE None

\* The (vel, enc_mode_raw, ctrl_id) looked up for a binding name, each optional;
\* `if binding_name and binding_name in midi_defs`.
lookup_defs(midi_defs, binding_name) ==
    IF binding_name # None /\ binding_name[1] # <<>> /\ binding_name[1] \in DOMAIN midi_defs
    THEN LET e == midi_defs[binding_name[1]]
         IN  [vel |-> Some(e.velocity), enc |-> Some(e.encoder_mode),
              cid |-> Some(e.control_id)]
    ELSE [vel |-> None, enc |-> None, cid |-> None]

\* `if ctrl_id == 0xFFFFFFFF: ctrl_id = -1`
normalize_ctrl_id(cid) == IF cid = Some([hi |-> 65535, lo |-> 65535]) THEN Some(I(-1)) ELSE cid

\* MidiEncoderMode(enc) under try/except ValueError
encoder_mode_of(enc) == IF enc = None THEN None ELSE EnumOf(MidiEncoderMode, enc[1])

\* The table `base` of _note_to_number_fallback
fallback_base == SEMITONE

\* The first key of `base`, longest first, that the name starts with
fallback_key(s) ==
    IF Len(s) >= 2 /\ SubSeq(s, 1, 2) \in DOMAIN fallback_base THEN SubSeq(s, 1, 2)
    ELSE IF Len(s) >= 1 /\ SubSeq(s, 1, 1) \in DOMAIN fallback_base THEN SubSeq(s, 1, 1)
    ELSE <<>>

\* _note_to_number_fallback
note_to_number_fallback(name) ==
    LET s == strip(name)
        k == fallback_key(s)
        octave == int_of(SubSeq(s, Len(k) + 1, Len(s)), 10)
    IN  IF k = <<>> \/ octave = None THEN None
        ELSE Some(I(12 * (octave[1] + 1) + fallback_base[k]))

\* `if number is None and note_name: number = _note_to_number_fallback(...)`
with_fallback(b) ==
    IF b.number = None /\ b.note_name # None /\ b.note_name[1] # <<>>
    THEN [b EXCEPT !.number = note_to_number_fallback(b.note_name[1])]
    ELSE b

\* parser.py 397-401 and 479-483: the four fields a record takes from its
\* binding name
midi_fields(b) ==
    [midi_channel |-> b.ch, midi_event |-> b.event,
     midi_number |-> b.number, midi_note_name |-> b.note_name]

\* _build_row_minimal
build_row_minimal(ctx, mapping_type_val, traktor_control_id, midi_binding_id) ==
    LET midi_note == DictGet(ctx.midi_bindings, midi_binding_id)
        defs == lookup_defs(ctx.midi_defs, midi_note)
    IN  MappingRow(ctx.device_name, ctx.device_target, traktor_control_id,
            midi_binding_id,
            [device_name_raw_hex |-> Some(ctx.device_name_raw_hex),
             mapping_type |-> IF ctx.cast_enums
                              THEN EnumOf(MappingType, mapping_type_val)
                              ELSE Some(mapping_type_val),
             midi_note |-> midi_note,
             midi_note_raw_hex |-> DictGet(ctx.midi_bindings_raw_hex, midi_binding_id),
             midi_encoder_mode |-> encoder_mode_of(defs.enc),
             midi_default_velocity |-> defs.vel,
             midi_control_id |-> normalize_ctrl_id(defs.cid),
             mapping_type_raw |-> Some(mapping_type_val)]
            @@ midi_fields(with_fallback(parse_binding_name(midi_note))))

\* _u32 / _f32 of _read_mapping, n times in a row: each read gives None once
\* fewer than 4 bytes are left before the settings frame's end.
RECURSIVE read_opt(_, _, _, _)
read_opt(d, off, end, n) ==
    IF n = 0 THEN [vals |-> <<>>, off |-> off]
    ELSE LET fits == off + 4 <= end
             rest == read_opt(d, IF fits THEN off + 4 ELSE off, end, n - 1)
         IN  [vals |-> <<IF fits THEN Some(BER_u32(d, off)) ELSE None>> \o rest.vals,
              off |-> rest.off]

\* _wstr_raw of _read_mapping
wstr_raw(d, off, end) ==
    IF off + 4 > end THEN [text |-> <<>>, raw_hex |-> None, off |-> off]
    ELSE LET n == AsLen(BER_u32(d, off))
             o1 == off + 4
             bytelen == IF o1 + n * 2 > end THEN Max(0, end - o1) ELSE n * 2
             raw == Slice(d, o1, o1 + bytelen)
         IN  [text |-> decode_utf16be(raw),
              raw_hex |-> IF bytelen # 0 THEN Some(raw) ELSE None,
              off |-> o1 + bytelen]

\* _cast of _read_mapping
cast(cast_on, enum_cls, value) ==
    IF ~cast_on \/ value = None THEN value ELSE EnumOf(enum_cls, value[1])

\* The trailing block is 10 four-byte fields.
TailLen == 40

\* `0 <= v <= 127`
midi_range_ok(v) == v.hi = 0 /\ v.lo <= 127

\* parser.py 341-363: the ten unguarded reads of the trailing block at `off`
\* (at least 40 bytes are left before `send`) and the acceptance test.
read_tail(d, off, send) ==
    LET t == [i \in 0..9 |-> Some(BER_u32(d, off + 4 * i))]
        tail_tell == off + TailLen
    IN  [accepted |-> tail_tell = send /\ midi_range_ok(t[3][1]) /\ midi_range_ok(t[4][1]),
         led_min_ctrl |-> clean_f(t[0]), led_max_ctrl |-> clean_f(t[2]),
         led_min_midi |-> t[3], led_max_midi |-> t[4],
         led_invert |-> t[5], led_blend |-> t[6], res_dword |-> t[8]]

NoTail ==
    [accepted |-> FALSE, led_min_ctrl |-> None, led_max_ctrl |-> None,
     led_min_midi |-> None, led_max_midi |-> None,
     led_invert |-> None, led_blend |-> None, res_dword |-> None]

mut_tail_any_direction(d, off, send, mapping_type_val) ==
    IF send - off >= TailLen
    THEN LET t == read_tail(d, off, send) IN IF t.accepted THEN t ELSE NoTail
    ELSE NoTail

mut_cmad_tail_keeps_rejected(d, off, send, mapping_type_val) ==
    IF mapping_type_val = MappingType_OUT /\ send - off >= TailLen
    THEN read_tail(d, off, send)
    ELSE NoTail

\* parser.py 332-363: the conditional tail of a mapping whose fixed head
\* ended at `off`
cmad_tail(d, off, send, mapping_type_val) ==
    IF mapping_type_val = MappingType_OUT /\ send - off >= TailLen
    THEN LET t == read_tail(d, off, send) IN IF t.accepted THEN t ELSE NoTail
    ELSE NoTail

mut_direct_gate_keep(interaction_mode_val, set_value_to) == clean_f(set_value_to)

\* parser.py 365-369
direct_gate(interaction_mode_val, set_value_to) ==
    IF (IF interaction_mode_val # None
        THEN interaction_mode_val[1] # InteractionMode_DIRECT
        ELSE TRUE)
    THEN None
    ELSE clean_f(set_value_to)

\* The settings frame (CMAD) [sstart, send) decoded into a full row.
read_settings(d, sstart, send, ctx, midi_binding_id, mapping_type_val, traktor_control_id) ==
    LET head == read_opt(d, sstart, send, 12)
        controller_type_val == head.vals[2]
        interaction_mode_val == head.vals[3]
        deck_scope_u32 == head.vals[4]
        deck_scope_val == to_s32(deck_scope_u32)
        cm == wstr_raw(d, head.off, send)
        mods == read_opt(d, cm.off, send, 7)
        tail == cmad_tail(d, mods.off, send, mapping_type_val)
        binding_name == DictGet(ctx.midi_bindings, midi_binding_id)
        defs == lookup_defs(ctx.midi_defs, binding_name)
    IN  [sr_off |-> IF tail.accepted THEN send ELSE mods.off,
         row |-> MappingRow(ctx.device_name, ctx.device_target, traktor_control_id,
            midi_binding_id,
            [device_name_raw_hex |-> Some(ctx.device_name_raw_hex),
             mapping_type |-> cast(ctx.cast_enums, MappingType, Some(mapping_type_val)),
             midi_note |-> binding_name,
             midi_note_raw_hex |-> DictGet(ctx.midi_bindings_raw_hex, midi_binding_id),
             midi_encoder_mode |-> encoder_mode_of(defs.enc),
             midi_default_velocity |-> clean_f(defs.vel),
             midi_control_id |-> normalize_ctrl_id(defs.cid),
             controller_type |-> cast(ctx.cast_enums, ControllerType, controller_type_val),
             interaction_mode |-> cast(ctx.cast_enums, InteractionMode, interaction_mode_val),
             deck_scope |-> cast(ctx.cast_enums, MappingTargetDeck, deck_scope_val),
             auto_repeat |-> head.vals[5], invert |-> head.vals[6],
             soft_takeover |-> head.vals[7],
             rotary_sensitivity |-> head.vals[8],
             rotary_acceleration |-> head.vals[9],
             set_value_to |-> direct_gate(interaction_mode_val, head.vals[12]),
             mod1_id |-> mods.vals[1], mod1_val |-> mods.vals[3],
             mod2_id |-> mods.vals[4], mod2_val |-> mods.vals[6],
             led_min_controller |-> tail.led_min_ctrl,
             led_max_controller |-> tail.led_max_ctrl,
             led_min_midi |-> tail.led_min_midi, led_max_midi |-> tail.led_max_midi,
             led_invert |-> tail.led_invert, led_blend |-> tail.led_blend,
             resolution_raw |-> IF ctx.cast_enums
                                THEN cast(TRUE, MappingResolution, tail.res_dword)
                                ELSE tail.res_dword,
             comment |-> IF cm.text = <<>> THEN None ELSE Some(cm.text),
             comment_raw_hex |-> cm.raw_hex,
             mapping_type_raw |-> Some(mapping_type_val),
             controller_type_raw |-> controller_type_val,
             interaction_mode_raw |-> interaction_mode_val,
             deck_scope_raw |-> deck_scope_u32,
             resolution_dword |-> tail.res_dword]
            @@ midi_fields(with_fallback(parse_binding_name(binding_name))))]

Raised == [exc |-> TRUE]

mut_read_mapping_settings_of_any_frame(d, start, end, ctx) ==
    IF BER_u32_raises(d, start + 8) THEN Raised
    ELSE LET midi_binding_id == BER_u32(d, start)
             mapping_type_val == BER_u32(d, start + 4)
             traktor_control_id == BER_u32(d, start + 8)
             h == read_frame_header(d, start + 12, end)
         IN  IF h.exc THEN Raised
             ELSE [exc |-> FALSE,
                        row |-> read_settings(d, h.pstart, h.pend, ctx, midi_binding_id,
                                    mapping_type_val, traktor_control_id).row]

\* _read_mapping over the mapping entry (CMAI) payload [start, end)
read_mapping(d, start, end, ctx) ==
    IF BER_u32_raises(d, start + 8) THEN Raised
    ELSE LET midi_binding_id == BER_u32(d, start)
             mapping_type_val == BER_u32(d, start + 4)
             traktor_control_id == BER_u32(d, start + 8)
             h == read_frame_header(d, start + 12, end)
         IN  IF h.exc THEN Raised
             ELSE IF h.fid # TagCMAD
                  THEN [exc |-> FALSE,
                        row |-> build_row_minimal(ctx, mapping_type_val,
                                    traktor_control_id, midi_binding_id)]
                  ELSE [exc |-> FALSE,
                        row |-> read_settings(d, h.pstart, h.pend, ctx, midi_binding_id,
                                    mapping_type_val, traktor_control_id).row]

-----------------------------------------------------------------------------
(* parser.py: lists and containers.  Each operator gives [exc |-> TRUE]   *)
(* when the Python call raises, else [exc |-> FALSE] with its result.     *)

\* _read_mappings_list, the `for _ in range(count)` loop with n rounds left;
\* mappings_append is the rest of a round once _read_mapping gave m.
RECURSIVE mappings_loop(_, _, _, _, _, _)
RECURSIVE mappings_append(_, _, _, _, _, _, _)
mappings_append(d, off, end, n, ctx, out, m) ==
    IF m.exc THEN Raised
    ELSE mappings_loop(d, off, end, n, ctx, Append(out, m.row))

mappings_loop(d, off, end, n, ctx, out) ==
    IF n = 0 THEN [exc |-> FALSE, rows |-> out]
    ELSE LET h == read_frame_header(d, off, end)
         IN  IF h.exc THEN Raised
             ELSE IF h.fid = TagCMAI
                  THEN mappings_append(d, h.pend, end, n - 1, ctx, out,
                           read_mapping(d, h.pstart, h.pend, ctx))
                  ELSE mappings_loop(d, h.pend, end, n - 1, ctx, out)

\* _read_mappings_list over a mapping list (CMAS) payload [start, end)
read_mappings_list(d, start, end, ctx) ==
    IF BER_u32_raises(d, start) THEN Raised
    ELSE mappings_loop(d, start + 4, end, AsLen(BER_u32(d, start)), ctx, <<>>)

\* _parse_mappings_container, first pass: the child slices
RECURSIVE child_slices(_, _, _, _)
child_slices(d, off, end, acc) ==
    IF off < end
    THEN LET h == read_frame_header(d, off, end)
         IN  IF h.exc THEN Raised
             ELSE child_slices(d, h.pend, end,
                      Append(acc, [fid |-> h.fid, cstart |-> h.pstart, cend |-> h.pend]))
    ELSE [exc |-> FALSE, slices |-> acc]

\* Pass A, one binding list: the `for _ in range(count)` loop with n rounds
\* left; tab is [names, raw_hex], the two dictionaries keyed by binding id.
RECURSIVE bindings_loop(_, _, _, _, _)
bindings_loop(d, off, end, n, tab) ==
    IF n = 0 THEN [exc |-> FALSE, tab |-> tab]
    ELSE LET h == read_frame_header(d, off, end)
         IN  IF h.exc THEN Raised
             ELSE IF h.fid # TagDCBM THEN bindings_loop(d, h.pend, end, n - 1, tab)
             ELSE IF BER_u32_raises(d, h.pstart + 4) THEN Raised
             ELSE LET binding_id == BER_u32(d, h.pstart)
                      nlen == AsLen(BER_u32(d, h.pstart + 4))
                      raw == Slice(d, h.pstart + 8, h.pstart + 8 + nlen * 2)
                  IN  bindings_loop(d, h.pend, end, n - 1,
                          [names |-> (binding_id :> decode_utf16be(raw)) @@ tab.names,
                           raw_hex |-> (binding_id :> raw) @@ tab.raw_hex])

EmptyDict == [k \in {} |-> None]

\* Pass A over the child slices from index i on; pass_a_next is the rest of
\* a round once the list's loop gave r.
RECURSIVE pass_a(_, _, _, _)
RECURSIVE pass_a_next(_, _, _, _)
pass_a_next(d, slices, i, r) ==
    IF r.exc THEN Raised ELSE pass_a(d, slices, i, r.tab)

pass_a(d, slices, i, tab) ==
    IF i > Len(slices) THEN [exc |-> FALSE, tab |-> tab]
    ELSE IF slices[i].fid # TagDCBM THEN pass_a(d, slices, i + 1, tab)
    ELSE IF BER_u32_raises(d, slices[i].cstart) THEN Raised
    ELSE pass_a_next(d, slices, i + 1,
             bindings_loop(d, slices[i].cstart + 4, slices[i].cend,
                 AsLen(BER_u32(d, slices[i].cstart)), tab))

\* Pass B over the child slices from index i on; pass_b_extend is the rest
\* of a round once _read_mappings_list gave r.
RECURSIVE pass_b(_, _, _, _, _)
RECURSIVE pass_b_extend(_, _, _, _, _, _)
pass_b_extend(d, slices, i, ctx, out, r) ==
    IF r.exc THEN Raised ELSE pass_b(d, slices, i, ctx, out \o r.rows)

pass_b(d, slices, i, ctx, out) ==
    IF i > Len(slices) THEN [exc |-> FALSE, rows |-> out]
    ELSE IF slices[i].fid # TagCMAS THEN pass_b(d, slices, i + 1, ctx, out)
    ELSE pass_b_extend(d, slices, i + 1, ctx, out,
             read_mappings_list(d, slices[i].cstart, slices[i].cend, ctx))

\* The child slices before the first mapping list
BeforeFirstList(slices) ==
    IF \E i \in 1..Len(slices) : slices[i].fid = TagCMAS
    THEN SubSeq(slices, 1, (CHOOSE i \in 1..Len(slices) :
                              /\ slices[i].fid = TagCMAS
                              /\ \A j \in 1..(i - 1) : slices[j].fid # TagCMAS) - 1)
    ELSE slices

mut_bindings_before_first_list(d, slices) ==
    pass_a(d, BeforeFirstList(slices), 1, [names |-> EmptyDict, raw_hex |-> EmptyDict])

\* parser.py 174-194: the binding tables of a container, from all its slices
container_bindings(d, slices) ==
    pass_a(d, slices, 1, [names |-> EmptyDict, raw_hex |-> EmptyDict])

\* parser.py 196-207, once pass A gave a
container_rows(d, slices, dev, a) ==
    IF a.exc THEN Raised
    ELSE pass_b(d, slices, 1,
             dev @@ [midi_bindings |-> a.tab.names,
                     midi_bindings_raw_hex |-> a.tab.raw_hex], <<>>)

\* parser.py 174-207, once the first pass gave cs
container_passes(d, dev, cs) ==
    IF cs.exc THEN Raised
    ELSE container_rows(d, cs.slices, dev, container_bindings(d, cs.slices))

\* _parse_mappings_container over a mappings container (DDCB) payload;
\* dev is the context without the binding tables.
parse_mappings_container(d, start, end, dev) ==
    container_passes(d, dev, child_slices(d, start, end, <<>>))

\* _parse_midi_definitions._scan_list, the `for _ in range(count)` loop with
\* n rounds left; a definition entry (DCDT) is name, two skipped u32,
\* velocity, encoder mode, control id.
RECURSIVE scan_list_loop(_, _, _, _, _)
scan_list_loop(d, off, end, n, out) ==
    IF n = 0 THEN [exc |-> FALSE, defs |-> out]
    ELSE LET h == read_frame_header(d, off, end)
         IN  IF h.exc THEN Raised
             ELSE IF h.fid # TagDCDT THEN scan_list_loop(d, h.pend, end, n - 1, out)
             ELSE IF BER_u32_raises(d, h.pstart) THEN Raised
             ELSE LET nlen == AsLen(BER_u32(d, h.pstart))
                      raw == Slice(d, h.pstart + 4, h.pstart + 4 + nlen * 2)
                      o == h.pstart + 4 + nlen * 2
                  IN  IF BER_u32_raises(d, o + 16) THEN Raised
                      ELSE scan_list_loop(d, h.pend, end, n - 1,
                              (decode_utf16be(raw) :>
                                  [velocity |-> BER_u32(d, o + 8),
                                   encoder_mode |-> BER_u32(d, o + 12),
                                   control_id |-> BER_u32(d, o + 16)]) @@ out)

\* _parse_midi_definitions over a definitions frame (DDDC) payload from off
\* on; definitions_next is the rest of a round once _scan_list gave r.
RECURSIVE parse_midi_definitions(_, _, _, _)
RECURSIVE definitions_next(_, _, _, _)
definitions_next(d, off, end, r) ==
    IF r.exc THEN Raised ELSE parse_midi_definitions(d, off, end, r.defs)

parse_midi_definitions(d, off, end, out) ==
    IF off < end
    THEN LET h == read_frame_header(d, off, end)
         IN  IF h.exc THEN Raised
             ELSE IF h.fid \in {TagDDCI, TagDDCO}
                  THEN IF BER_u32_raises(d, h.pstart) THEN Raised
                       ELSE definitions_next(d, h.pend, end,
                                scan_list_loop(d, h.pstart + 4, h.pend,
                                    AsLen(BER_u32(d, h.pstart)), out))
                  ELSE parse_midi_definitions(d, h.pend, end, out)
    ELSE [exc |-> FALSE, defs |-> out]

\* _parse_device_data, the `while r.tell() < r.end` loop from off on; st is
\* [device_target, midi_defs, rows], dev the device's name and options.
RECURSIVE device_data_loop(_, _, _, _, _)
RECURSIVE device_data_defs(_, _, _, _, _, _)
RECURSIVE device_data_rows(_, _, _, _, _, _)
\* `midi_defs.update(...)` once _parse_midi_definitions gave r
device_data_defs(d, off, end, dev, st, r) ==
    IF r.exc THEN Raised
    ELSE device_data_loop(d, off, end, dev, [st EXCEPT !.midi_defs = r.defs @@ @])

\* `rows.extend(...)` once _parse_mappings_container gave r
device_data_rows(d, off, end, dev, st, r) ==
    IF r.exc THEN Raised
    ELSE device_data_loop(d, off, end, dev, [st EXCEPT !.rows = @ \o r.rows])

mut_device_data_loop_final_target(d, off, end, dev, st) ==
    IF off < end
    THEN LET h == read_frame_header(d, off, end)
         IN  IF h.exc THEN Raised
             ELSE IF h.fid = TagDDIF
                  THEN IF BER_u32_raises(d, h.pstart) THEN Raised
                       ELSE device_data_loop(d, h.pend, end, dev,
                                [st EXCEPT !.device_target = BER_u32(d, h.pstart)])
             ELSE IF h.fid = TagDDDC
                  THEN device_data_defs(d, h.pend, end, dev, st,
                           parse_midi_definitions(d, h.pstart, h.pend, EmptyDict))
             ELSE IF h.fid = TagDDCB
                  THEN device_data_rows(d, h.pend, end, dev, st,
                           parse_mappings_container(d, h.pstart, h.pend,
                               dev @@ [device_target |-> st.device_target,
                                       midi_defs |-> st.midi_defs]))
             ELSE device_data_loop(d, h.pend, end, dev, st)
    ELSE [exc |-> FALSE,
          rows |-> [i \in 1..Len(st.rows) |->
                       [st.rows[i] EXCEPT !.device_target = st.device_target]]]

device_data_loop(d, off, end, dev, st) ==
    IF off < end
    THEN LET h == read_frame_header(d, off, end)
         IN  IF h.exc THEN Raised
             ELSE IF h.fid = TagDDIF
                  THEN IF BER_u32_raises(d, h.pstart) THEN Raised
                       ELSE device_data_loop(d, h.pend, end, dev,
                                [st EXCEPT !.device_target = BER_u32(d, h.pstart)])
             ELSE IF h.fid = TagDDDC
                  THEN device_data_defs(d, h.pend, end, dev, st,
                           parse_midi_definitions(d, h.pstart, h.pend, EmptyDict))
             ELSE IF h.fid = TagDDCB
                  THEN device_data_rows(d, h.pend, end, dev, st,
                           parse_mappings_container(d, h.pstart, h.pend,
                               dev @@ [device_target |-> st.device_target,
                                       midi_defs |-> st.midi_defs]))
             ELSE device_data_loop(d, h.pend, end, dev, st)
    ELSE [exc |-> FALSE, rows |-> st.rows]

\* _parse_device_data over a device-data frame (DDAT) payload
parse_device_data(d, start, end, dev) ==
    device_data_loop(d, start, end, dev,
        [device_target |-> I(0), midi_defs |-> EmptyDict, rows |-> <<>>])

\* _parse_device, the `while r.tell() < r.end` loop from off on
RECURSIVE device_loop(_, _, _, _, _)
RECURSIVE device_extend(_, _, _, _, _, _)
\* `rows.extend(...)` once _parse_device_data gave r
device_extend(d, off, end, dev, out, r) ==
    IF r.exc THEN Raised ELSE device_loop(d, off, end, dev, out \o r.rows)

device_loop(d, off, end, dev, out) ==
    IF off < end
    THEN LET h == read_frame_header(d, off, end)
         IN  IF h.exc THEN Raised
             ELSE IF h.fid = TagDDAT
                  THEN device_extend(d, h.pend, end, dev, out,
                           parse_device_data(d, h.pstart, h.pend, dev))
                  ELSE device_loop(d, h.pend, end, dev, out)
    ELSE [exc |-> FALSE, rows |-> out]

\* _parse_device over a device frame (DEVI) payload [start, end)
parse_device(d, start, end, cast_on) ==
    IF BER_u32_raises(d, start) THEN Raised
    ELSE LET name_len == AsLen(BER_u32(d, start))
             device_name_raw == Slice(d, start + 4, start + 4 + name_len * 2)
         IN  device_loop(d, start + 4 + name_len * 2, end,
                 [device_name |-> decode_utf16be(device_name_raw),
                  device_name_raw_hex |-> device_name_raw,
                  cast_enums |-> cast_on], <<>>)

-----------------------------------------------------------------------------
(* The walker and the decoder as a state machine *)

Top == stack[Len(stack)]
TopHead == Slice(data, Top.off, Top.off + 4)
TopScanning ==
    status = "running" /\ Len(stack) > 0 /\ Top.off + HeaderLen <= Top.end

mut_resync_target_two(off) == off + 2

mut_resync_target_stay(off) == off

\* frames.py 40: r.seek(r.tell() + 1) on bytes that do not look like a tag
resync_target(off) == off + 1

\* frames.py 38-41: the 4 bytes at the cursor are not a tag
WalkResync ==
    /\ TopScanning
    /\ ~looks_like_id(TopHead)
    /\ stack' = [stack EXCEPT ![Len(stack)].off = resync_target(@)]
    /\ UNCHANGED <<data, entry, cast_enums, yielded, rows, status, input, result>>

\* frames.py 43-48: read_frame_header raised; the cursor is where the failed
\* read left it, and the walker moves one byte on from there
WalkHeaderFault ==
    /\ TopScanning
    /\ looks_like_id(TopHead)
    /\ LET h == read_frame_header(data, Top.off, Top.end)
       IN  /\ h.exc
           /\ stack' = [stack EXCEPT ![Len(stack)].off = h.off + 1]
    /\ UNCHANGED <<data, entry, cast_enums, yielded, rows, status, input, result>>

mut_payload_range_empty(h) == [start |-> h.pend, off |-> h.pend, end |-> h.pend]

\* frames.py 58: the range the nested walk(data, pstart, pend) scans
payload_range(h) == [start |-> h.pstart, off |-> h.pstart, end |-> h.pend]

\* frames.py 50-52: the node of the frame whose header read gave h
FrameNode(h) ==
    [id4 |-> h.fid, start |-> h.pstart - HeaderLen, end |-> h.pend,
     children_count |-> count_children(data, h.pstart, h.pend)]

\* parser.py 49-50: what parse() does with a yielded node; walk()'s own
\* callers do nothing that the model follows
loop_body(node) ==
    IF entry = "parse" /\ node.id4 = TagDEVI
    THEN parse_device(data, node.start + HeaderLen, node.end, cast_enums)
    ELSE [exc |-> FALSE, rows |-> <<>>]

\* The step after the yield: an exception in the consumer ends parse();
\* else the rows are extended and walk() recurses into the payload
Consume(h, dev) ==
    IF dev.exc
    THEN /\ status' = "raised"
         /\ rows' = <<>>
         /\ stack' = <<>>
    ELSE /\ status' = status
         /\ rows' = rows \o dev.rows
         /\ stack' = Append([stack EXCEPT ![Len(stack)].off = h.pstart],
                            payload_range(h))

\* frames.py 50-58: a frame is yielded and walk() recurses into its payload;
\* under parse() the consumer's loop body (parser.py 48-50) runs on the node
WalkYield ==
    /\ TopScanning
    /\ looks_like_id(TopHead)
    /\ LET h == read_frame_header(data, Top.off, Top.end)
       IN  /\ ~h.exc
           /\ yielded' = Append(yielded, FrameNode(h))
           /\ Consume(h, loop_body(FrameNode(h)))
    /\ UNCHANGED <<data, entry, cast_enums, input, result>>

\* frames.py 36 and 61: a walk() is exhausted; its caller seeks to the end of
\* the frame it recursed into; when the outermost walk() ends, walk (and
\* parse, parser.py 51) returns
WalkReturn ==
    /\ status = "running" /\ Len(stack) > 0
    /\ Top.off + HeaderLen > Top.end
    /\ IF Len(stack) = 1
       THEN /\ stack' = <<>>
            /\ status' = "returned"
       ELSE /\ stack' = [SubSeq(stack, 1, Len(stack) - 1)
                            EXCEPT ![Len(stack) - 1].off = Top.end]
            /\ status' = status
    /\ UNCHANGED <<data, entry, cast_enums, yielded, rows, input, result>>

Next == WalkResync \/ WalkHeaderFault \/ WalkYield \/ WalkReturn

-----------------------------------------------------------------------------
(* Input buffers: the wire format, written out *)

BytesOf(u) == <<u.hi \div 256, u.hi % 256, u.lo \div 256, u.lo % 256>>
B(n) == BytesOf(I(n))

RECURSIVE Flatten(_)
Flatten(ss) == IF ss = <<>> THEN <<>> ELSE Head(ss) \o Flatten(Tail(ss))

RECURSIVE Utf16Bytes(_)
Utf16Bytes(s) ==
    IF s = <<>> THEN <<>>
    ELSE <<Head(s) \div 256, Head(s) % 256>> \o Utf16Bytes(Tail(s))

\* Length-prefixed wide text, and a frame around a payload
WStr(s) == B(Len(s)) \o Utf16Bytes(s)
Frame(tag, payload) == tag \o B(Len(payload)) \o payload

RECURSIVE Repeat(_, _)
Repeat(x, n) == IF n = 0 THEN <<>> ELSE <<x>> \o Repeat(x, n - 1)

\* All sequences of at most n elements of S
RECURSIVE SeqsUpTo(_, _)
SeqsUpTo(S, n) ==
    IF n = 0 THEN {<<>>}
    ELSE LET shorter == SeqsUpTo(S, n - 1)
         IN  shorter \cup {Append(q, x) : q \in shorter, x \in S}

(* Buffers for the walker *)

MaxFrames == 3     \* frames in a well-formed nested buffer
MaxPieces == 4     \* pieces in an arbitrary buffer
MaxJunk == 2       \* junk bytes between two sibling frames

TagAAAA == <<65, 65, 65, 65>>
Tag_b0Z == <<95, 98, 48, 90>>
WalkTags == {TagAAAA, Tag_b0Z}

\* Concatenations of well-formed frames, at most n frames in all
RECURSIVE WellFormedBuffers(_)
WellFormedBuffers(n) ==
    IF n = 0 THEN {<<>>}
    ELSE {<<>>} \cup
         UNION {{Frame(t, p) \o rest :
                    t \in WalkTags, p \in WellFormedBuffers(k),
                    rest \in WellFormedBuffers(n - 1 - k)} : k \in 0..(n - 1)}

\* Bytes outside the tag alphabet, next to each of its edges and far from it
JunkBytes == {0, 47, 58, 64, 91, 94, 96, 123, 255}

\* Pieces of an arbitrary buffer: junk, a tag-alphabet byte, an empty frame,
\* headers that declare 1 and 8 payload bytes
Pieces ==
    {<<0>>, <<65>>, Frame(TagAAAA, <<>>), TagAAAA \o B(1), Tag_b0Z \o B(8)}

PieceBuffers == {Flatten(q) : q \in SeqsUpTo(Pieces, MaxPieces)}

\* Two sibling frames with a run of junk between them, at top level or as
\* the payload of an enclosing frame, the first frame possibly with a child
JunkRuns == SeqsUpTo(JunkBytes, MaxJunk) \ {<<>>}

JunkBuffers ==
    LET pairs == {Frame(TagAAAA, p) \o j \o Frame(Tag_b0Z, <<>>) :
                     p \in {<<>>, Frame(TagAAAA, <<>>)}, j \in JunkRuns}
    IN  pairs \cup {Frame(Tag_b0Z, x) : x \in pairs}

WalkBuffers == WellFormedBuffers(MaxFrames) \cup PieceBuffers \cup JunkBuffers

InitWalk ==
    /\ data \in WalkBuffers
    /\ input = [kind |-> "bytes"]
    /\ entry = "walk"
    /\ cast_enums = TRUE
    /\ stack = <<[start |-> 0, off |-> 0, end |-> Len(data)]>>
    /\ yielded = <<>>
    /\ rows = <<>>
    /\ status = "running"
    /\ result = None

SpecWalk == InitWalk /\ [][Next]_vars

\* walk() driven to exhaustion, as by list(walk(data)) or parse()'s for loop:
\* the consumer resumes the generator again and again, and the generator's
\* code between two yields runs without waiting for anything
SpecWalkFair == InitWalk /\ [][Next]_vars /\ WF_vars(Next)


(* Buffers for the decoder: a controller blob written out from a          *)
(* description of what it holds, which stays in `input` so that what the  *)
(* decoder returns can be held against what was written.                  *)

MaxExtra == 1      \* further plain mappings in the list beside the one varied

W(hi, lo) == [hi |-> hi, lo |-> lo]
AllOnes == W(65535, 65535)          \* 0xFFFFFFFF
F_1_0 == W(16256, 0)                \* float32 1.0, 0x3F800000
F_0_5 == W(16128, 0)                \* float32 0.5, 0x3F000000
F_NaN == W(32704, 0)                \* float32 nan, 0x7FC00000
TagDEVS == <<68, 69, 86, 83>>
TagXXXX == <<88, 88, 88, 88>>

\* The trailing block of a settings frame, by shape
GoodTail(res, max_midi) ==
    BytesOf(F_1_0) \o B(0) \o BytesOf(F_0_5) \o B(0) \o B(max_midi)
        \o B(1) \o B(0) \o B(0) \o BytesOf(res) \o B(0)

TailBytes(shape) ==
    CASE shape = "none"    -> <<>>
      [] shape = "good"    -> GoodTail(W(15744, 0), 127)
      [] shape = "oddres"  -> GoodTail(W(4660, 22136), 127)
      [] shape = "badmidi" -> GoodTail(W(15744, 0), 128)
      [] shape = "short"   -> SubSeq(GoodTail(W(15744, 0), 127), 1, TailLen - 4)
      [] shape = "long"    -> GoodTail(W(15744, 0), 127) \o B(0)
      [] shape = "badmin"  -> SubSeq(GoodTail(W(15744, 0), 127), 1, 12) \o B(128)
                                \o SubSeq(GoodTail(W(15744, 0), 127), 17, TailLen)
      [] shape = "zeroled" -> B(0) \o SubSeq(GoodTail(W(15744, 0), 127), 5, TailLen)

\* One mapping as written: its three leading fields, the nested frame's tag,
\* the settings, and how much of the settings payload is kept (cut)
BaseMapping ==
    [bid |-> 5, mtype |-> 0, ctrl |-> 100, nested |-> TagCMAD, shape |-> "ok",
     ctype |-> I(0), imode |-> I(3), deck |-> I(0), svt |-> F_1_0,
     comment |-> <<>>, cut |-> None, tail |-> "none"]

ExtraMapping == [BaseMapping EXCEPT !.bid = 6, !.ctrl = 200, !.imode = I(1)]

SettingsBytes(m) ==
    LET full == B(0) \o BytesOf(m.ctype) \o BytesOf(m.imode) \o BytesOf(m.deck)
                  \o B(0) \o B(1) \o B(0) \o BytesOf(F_0_5) \o B(0)
                  \o B(0) \o B(0) \o BytesOf(m.svt)
                  \o WStr(m.comment)
                  \o B(1) \o B(0) \o B(2) \o B(0) \o B(0) \o B(0) \o B(0)
                  \o TailBytes(m.tail)
    IN  IF m.cut = None THEN full ELSE SubSeq(full, 1, Min(m.cut[1], Len(full)))

\* shape "ok" is a whole entry; "truncated" ends inside the three leading
\* fields, "missing" has no nested frame, "oob" has a nested frame whose
\* declared length runs past the entry
MappingBytes(m) ==
    CASE m.shape = "ok" ->
           Frame(TagCMAI, B(m.bid) \o B(m.mtype) \o B(m.ctrl)
                            \o Frame(m.nested, SettingsBytes(m)))
      [] m.shape = "truncated" -> Frame(TagCMAI, B(m.bid) \o B(m.mtype))
      [] m.shape = "missing" -> Frame(TagCMAI, B(m.bid) \o B(m.mtype) \o B(m.ctrl))
      [] m.shape = "oob" ->
           Frame(TagCMAI, B(m.bid) \o B(m.mtype) \o B(m.ctrl) \o m.nested
                            \o B(Len(SettingsBytes(m)) + 4) \o SettingsBytes(m))

MappingListBytes(maps, excess) ==
    Frame(TagCMAS, B(Len(maps) + excess)
                     \o Flatten([i \in 1..Len(maps) |-> MappingBytes(maps[i])]))

BindingListBytes(entries) ==
    Frame(TagDCBM, B(Len(entries))
                     \o Flatten([i \in 1..Len(entries) |->
                            Frame(TagDCBM, B(entries[i].id) \o WStr(entries[i].name))]))

\* The children of a mappings container: binding lists and the mapping list
ChildM == [kind |-> "M", entries |-> <<>>]
ChildB(entries) == [kind |-> "B", entries |-> entries]
NameA == <<65>>
NameB == <<66>>
NameZ == <<90>>
ListOld == ChildB(<<[id |-> 5, name |-> NameZ]>>)
ListNew == ChildB(<<[id |-> 5, name |-> NameA], [id |-> 6, name |-> NameB]>>)

ContainerBytes(s, children) ==
    Frame(TagDDCB,
        Flatten([i \in 1..Len(children) |->
            IF children[i].kind = "M"
            THEN MappingListBytes(s.maps, s.excess)
            ELSE BindingListBytes(children[i].entries)]))

DefinitionBytes(name, def) ==
    Frame(TagDCDT, WStr(name) \o B(0) \o B(0) \o BytesOf(def.vel)
                     \o BytesOf(def.enc) \o BytesOf(def.cid))

\* The inputs list defines the description's name as the description says;
\* the outputs list holds a frame that is not a definition and a definition
\* of name B
DefinitionsBytes(s) ==
    Frame(TagDDDC,
        Frame(TagDDCI, B(1) \o DefinitionBytes(s.defname, s.def))
        \o Frame(TagDDCO, B(2) \o Frame(TagXXXX, B(0))
               \o DefinitionBytes(NameB, [vel |-> F_0_5, enc |-> I(1), cid |-> I(7)])))

\* Another definitions frame, defining the description's name differently
AltDef == [vel |-> F_0_5, enc |-> I(1), cid |-> I(9)]
DefinitionsAltBytes(s) ==
    Frame(TagDDDC, Frame(TagDDCO, B(1) \o DefinitionBytes(s.defname, AltDef)))

\* The children of a device-data frame: a target frame, a definitions
\* frame (the description's or the other one), the mappings container
ChildI(t) == [kind |-> "I", target |-> t, alt |-> FALSE]
ChildD(alt) == [kind |-> "D", target |-> 0, alt |-> alt]
ChildC == [kind |-> "C", target |-> 0, alt |-> FALSE]

DeviceDataBytes(s, children) ==
    Frame(TagDDAT,
        Flatten([i \in 1..Len(s.devdata) |->
            CASE s.devdata[i].kind = "I" -> Frame(TagDDIF, B(s.devdata[i].target))
              [] s.devdata[i].kind = "D" ->
                   IF s.devdata[i].alt THEN DefinitionsAltBytes(s) ELSE DefinitionsBytes(s)
              [] s.devdata[i].kind = "C" -> ContainerBytes(s, children)]))

DeviceBytes(s, children) ==
    Frame(TagDEVI,
        WStr(<<75>>) \o Frame(TagXXXX, <<>>) \o DeviceDataBytes(s, children))

\* The whole buffer: the device frame alone or inside a counted outer
\* frame, between the description's leading and trailing bytes
Blob(s) ==
    s.prefix
    \o (IF s.wrap THEN Frame(TagDEVS, B(1) \o DeviceBytes(s, s.children))
                  ELSE DeviceBytes(s, s.children))
    \o s.suffix

BaseScenario ==
    [maps |-> <<BaseMapping>>, excess |-> 0,
     children |-> <<ListNew, ChildM>>,
     def |-> [vel |-> F_1_0, enc |-> I(0), cid |-> I(7)], defname |-> NameA,
     devdata |-> <<ChildI(2), ChildD(FALSE), ChildC>>,
     cast |-> TRUE, wrap |-> FALSE, prefix |-> <<>>, suffix |-> <<>>]

\* The mapping varied, one group of fields at a time
MappingVariants ==
    {[BaseMapping EXCEPT !.mtype = t, !.tail = x] :
        t \in {0, 1, 2},
        x \in {"none", "good", "oddres", "badmidi", "short", "long", "badmin", "zeroled"}}
    \cup {[BaseMapping EXCEPT !.imode = i, !.svt = f] :
        i \in {I(1), I(3), I(99)}, f \in {F_1_0, I(0), F_NaN}}
    \cup {[BaseMapping EXCEPT !.deck = v, !.mtype = 1, !.tail = "good"] :
        v \in {AllOnes, I(0), I(15), I(16), W(32768, 0), W(32767, 65535),
               W(65535, 65534)}}
    \cup {[BaseMapping EXCEPT !.ctype = v] : v \in {I(1), I(7), I(65535)}}
    \cup {[BaseMapping EXCEPT !.cut = Some(n), !.mtype = 1, !.tail = "good"] :
        n \in {0, 8, 10, 16, 40, 48, 80, 84, 100, 120}}
    \cup {[BaseMapping EXCEPT !.bid = b, !.nested = g] :
        b \in {5, 6, 9}, g \in {TagCMAD, TagXXXX}}
    \cup {[BaseMapping EXCEPT !.comment = <<104, 105>>, !.mtype = t, !.tail = "good"] :
        t \in {0, 1}}

\* The varied mapping at every place among up to MaxExtra plain ones
Placements(m) ==
    {Repeat(ExtraMapping, a) \o <<m>> \o Repeat(ExtraMapping, b) :
        a \in 0..MaxExtra, b \in 0..MaxExtra} \cap SeqsUpTo({m, ExtraMapping}, MaxExtra + 1)

ChildOrders ==
    {<<ListNew, ChildM>>, <<ChildM, ListNew>>, <<ListOld, ChildM, ListNew>>,
     <<ListOld, ListNew, ChildM>>, <<ChildM, ListOld, ListNew>>,
     <<ListNew, ChildM, ListOld>>, <<ChildM>>}

MalformedShapes == {"truncated", "missing", "oob"}

\* Binding names as controllers carry them: Ch05.Note.C#3, Ch01.Note.0B,
\* Ch07.CC.064, Ch01.PitchBend.5, Ch02.Note.E#3, Ch02.Note.Cb3, Ch03.Note.zz
SampleNames ==
    {<<67, 104, 48, 53, 46, 78, 111, 116, 101, 46, 67, 35, 51>>,
     <<67, 104, 48, 49, 46, 78, 111, 116, 101, 46, 48, 66>>,
     <<67, 104, 48, 55, 46, 67, 67, 46, 48, 54, 52>>,
     <<67, 104, 48, 49, 46, 80, 105, 116, 99, 104, 66, 101, 110, 100, 46, 53>>,
     <<67, 104, 48, 50, 46, 78, 111, 116, 101, 46, 69, 35, 51>>,
     <<67, 104, 48, 50, 46, 78, 111, 116, 101, 46, 67, 98, 51>>,
     <<67, 104, 48, 51, 46, 78, 111, 116, 101, 46, 122, 122>>}

\* The children of the device-data frame in several orders
DevDataOrders ==
    {<<ChildI(2), ChildD(FALSE), ChildC>>, <<ChildC, ChildI(2), ChildD(FALSE)>>,
     <<ChildI(2), ChildC, ChildI(3)>>, <<ChildI(2), ChildI(3), ChildD(FALSE), ChildC>>,
     <<ChildD(FALSE), ChildC, ChildD(TRUE)>>, <<ChildD(FALSE), ChildD(TRUE), ChildC>>,
     <<ChildD(TRUE), ChildD(FALSE), ChildC>>, <<ChildI(2), ChildC, ChildD(FALSE)>>,
     <<ChildC>>,
     <<ChildI(2), ChildD(FALSE), ChildC, ChildI(3), ChildD(TRUE), ChildC>>}

Scenarios ==
    {[BaseScenario EXCEPT !.maps = q, !.cast = c] :
        q \in UNION {Placements(m) : m \in MappingVariants}, c \in BOOLEAN}
    \cup {[BaseScenario EXCEPT !.children = o, !.maps = q] :
        o \in ChildOrders,
        q \in {<<BaseMapping>>, <<BaseMapping, ExtraMapping>>,
               <<[BaseMapping EXCEPT !.bid = 9]>>}}
    \cup {[BaseScenario EXCEPT !.def = [vel |-> f, enc |-> e, cid |-> n]] :
        f \in {F_1_0, I(0)}, e \in {I(0), I(1), I(9)}, n \in {AllOnes, I(7)}}
    \cup {[BaseScenario EXCEPT !.def = [vel |-> f, enc |-> I(1), cid |-> n],
                                !.maps = q, !.children = o] :
        f \in {F_1_0, F_0_5, I(0), F_NaN}, n \in {AllOnes, I(7)},
        q \in {<<[BaseMapping EXCEPT !.nested = TagXXXX]>>,
               <<BaseMapping, [BaseMapping EXCEPT !.nested = TagXXXX]>>,
               <<[BaseMapping EXCEPT !.bid = 9, !.nested = TagXXXX], BaseMapping>>},
        o \in {<<ListNew, ChildM>>, <<ListNew, ChildM, ListOld>>}}
    \cup {[BaseScenario EXCEPT !.maps = q] :
        q \in UNION {Placements([BaseMapping EXCEPT !.shape = x]) :
                        x \in MalformedShapes}}
    \cup {[BaseScenario EXCEPT !.excess = 1, !.maps = q] :
        q \in {<<>>, <<BaseMapping>>}}
    \cup {[BaseScenario EXCEPT !.children = <<ChildB(<<[id |-> 5, name |-> n]>>), ChildM>>,
                                !.defname = n, !.maps = q] :
        n \in SampleNames,
        q \in Placements(BaseMapping)
               \cup Placements([BaseMapping EXCEPT !.nested = TagXXXX])}
    \cup {[BaseScenario EXCEPT !.devdata = o, !.maps = q] :
        o \in DevDataOrders,
        q \in {<<BaseMapping>>, <<BaseMapping, ExtraMapping>>,
               <<[BaseMapping EXCEPT !.nested = TagXXXX]>>}}
    \cup {[BaseScenario EXCEPT !.wrap = TRUE],
          [BaseScenario EXCEPT !.suffix = TagAAAA \o B(200)],
          [BaseScenario EXCEPT !.prefix = TagAAAA \o B(60000) \o <<0>>],
          [BaseScenario EXCEPT !.wrap = TRUE, !.suffix = <<0, 0, 0>>]}

\* TsiParser(cast_enums).parse(blob): the generator from walk(blob) is about
\* to be resumed for the first time
Init ==
    /\ input \in Scenarios
    /\ data = Blob(input)
    /\ entry = "parse"
    /\ cast_enums = input.cast
    /\ stack = <<[start |-> 0, off |-> 0, end |-> Len(data)]>>
    /\ yielded = <<>>
    /\ rows = <<>>
    /\ status = "running"
    /\ result = None

Spec == Init /\ [][Next]_vars

-----------------------------------------------------------------------------
(* Properties of the walker, read off the bytes of the buffer *)

\* The tag alphabet: digits, upper and lower case letters, underscore
TagAlphabet == (48..57) \cup (65..90) \cup (97..122) \cup {95}

\* The payload length declared by the header at offset s
DeclaredSize(d, s) == AsLen(BER_u32(d, s + 4))

\* A header at s whose tag is from the alphabet and whose payload ends by e
ValidFrameWithin(d, s, e) ==
    /\ s + HeaderLen <= e
    /\ \A i \in 1..4 : d[s + i] \in TagAlphabet
    /\ s + HeaderLen + DeclaredSize(d, s) <= e

\* [a, b) is a concatenation of well-formed frames whose payloads are such
\* concatenations too, or empty
RECURSIVE IsFrameSeq(_, _, _)
IsFrameSeq(d, a, b) ==
    \/ a = b
    \/ /\ ValidFrameWithin(d, a, b)
       /\ IsFrameSeq(d, a + HeaderLen, a + HeaderLen + DeclaredSize(d, a))
       /\ IsFrameSeq(d, a + HeaderLen + DeclaredSize(d, a), b)

WellFormed(d) == IsFrameSeq(d, 0, Len(d))

\* The frames of a well-formed range, each with the start of its parent
\* (-1 at top level)
RECURSIVE FramesOf(_, _, _, _)
FramesOf(d, a, b, parent) ==
    IF a = b THEN {}
    ELSE {[start |-> a, end |-> a + HeaderLen + DeclaredSize(d, a), parent |-> parent]}
         \cup FramesOf(d, a + HeaderLen, a + HeaderLen + DeclaredSize(d, a), a)
         \cup FramesOf(d, a + HeaderLen + DeclaredSize(d, a), b, parent)

TrueFrames == FramesOf(data, 0, Len(data), -1)

YieldedAt(s) == {i \in 1..Len(yielded) : yielded[i].start = s}

\* C1: on a buffer that is a concatenation of well-formed frames whose
\* payloads are again such concatenations or empty, walk yields every frame
\* exactly once, a parent before each of its descendants and siblings by
\* increasing start offset: what has been yielded so far are frames of the
\* buffer in strictly increasing start order, a frame inside another comes
\* after it, and when walk returns every frame has been yielded once.
C1_PreOrderExactlyOnce ==
    WellFormed(data) =>
        /\ \A i \in 1..Len(yielded) :
              \E f \in TrueFrames :
                  f.start = yielded[i].start /\ f.end = yielded[i].end
        /\ \A i, j \in 1..Len(yielded) :
              i < j => yielded[i].start < yielded[j].start
        /\ \A i, j \in 1..Len(yielded) :
              (yielded[i].start < yielded[j].start /\ yielded[j].end <= yielded[i].end)
                  => i < j
        /\ status = "returned" =>
              \A f \in TrueFrames : Cardinality(YieldedAt(f.start)) = 1

\* A well-formed buffer of a parent, its child and a later sibling, walked
C1_Witness ==
    /\ status = "returned" /\ WellFormed(data) /\ Len(yielded) = 3
    /\ yielded[2].start = yielded[1].start + HeaderLen
    /\ yielded[2].end = yielded[1].end
    /\ yielded[3].start = yielded[1].end

\* C2: on any buffer, every structurally valid frame (four tag bytes from
\* the alphabet, declared payload inside the range) has been yielded exactly
\* once when walk returns, whatever bytes precede or separate the frames.
C2_EveryValidFrameOnce ==
    status = "returned" =>
        \A s \in 0..Len(data) :
            ValidFrameWithin(data, s, Len(data)) => Cardinality(YieldedAt(s)) = 1

\* C9: on a well-formed nested-frame buffer the children_count of every
\* yielded node is the number of frames whose parent is that node.
C9_ChildrenCount ==
    WellFormed(data) =>
        \A i \in 1..Len(yielded) :
            yielded[i].children_count =
                Cardinality({f \in TrueFrames : f.parent = yielded[i].start})

\* A yielded node with two immediate children
C9_Witness ==
    /\ WellFormed(data)
    /\ \E i \in 1..Len(yielded) :
          /\ yielded[i].children_count = 2
          /\ Cardinality({f \in TrueFrames : f.parent = yielded[i].start}) = 2

\* The end of the range in which yielded[i] was found: the end of the
\* innermost yielded frame around it, or the end of the buffer
Around(i) ==
    {j \in 1..Len(yielded) :
        yielded[j].start < yielded[i].start /\ yielded[i].end <= yielded[j].end}

EnclosingEnd(i) ==
    IF Around(i) = {} THEN Len(data)
    ELSE yielded[CHOOSE j \in Around(i) :
                    \A k \in Around(i) : yielded[k].start <= yielded[j].start].end

\* Bytes [a, b) are a run of at least one byte, none from the tag alphabet
JunkRun(a, b) == a < b /\ \A k \in a..(b - 1) : data[k + 1] \notin TagAlphabet

\* C10: when a run of one or more bytes, none from the tag alphabet, lies
\* between a yielded frame and a valid frame of the same range, walk has
\* yielded both when it returns, the earlier frame first.
C10_JunkBetweenSiblings ==
    status = "returned" =>
        \A i \in 1..Len(yielded) : \A b \in 0..Len(data) :
            (JunkRun(yielded[i].end, b) /\ ValidFrameWithin(data, b, EnclosingEnd(i)))
                => \E j \in (i + 1)..Len(yielded) : yielded[j].start = b

\* Two siblings inside a frame, the longest junk run between them, both yielded
C10_Witness ==
    /\ status = "returned"
    /\ \E i \in 1..Len(yielded) : \E j \in (i + 1)..Len(yielded) :
          /\ Around(i) # {}
          /\ yielded[j].start = yielded[i].end + MaxJunk
          /\ JunkRun(yielded[i].end, yielded[j].start)
          /\ ValidFrameWithin(data, yielded[j].start, EnclosingEnd(i))

-----------------------------------------------------------------------------
(* Properties of the decoder, read off what was written into the buffer *)

\* The description holds no malformed mapping entry
HasMalformed(s) ==
    s.excess > 0 \/ \E i \in 1..Len(s.maps) : s.maps[i].shape # "ok"

\* The mappings containers the description puts into the device data
Containers(s) == {i \in 1..Len(s.devdata) : s.devdata[i].kind = "C"}

\* decode returned on a buffer with one mappings container and without
\* malformed entries: the records stand in the order of the mappings written
Decoded ==
    status = "returned" /\ ~HasMalformed(input) /\ Cardinality(Containers(input)) = 1

\* The mapping was written with a whole settings frame
WholeSettings(m) == m.shape = "ok" /\ m.nested = TagCMAD /\ m.cut = None

\* The length of a settings payload up to its trailing block
FixedHeadLen(m) == 80 + 2 * Len(m.comment)

\* The trailing-block heuristic, on the bytes written: exactly one trailing
\* block follows the fixed head and both MIDI bounds in it are in 0..127
TailAccepted(m) ==
    /\ m.shape = "ok" /\ m.nested = TagCMAD
    /\ Len(SettingsBytes(m)) = FixedHeadLen(m) + TailLen
    /\ midi_range_ok(BER_u32(SettingsBytes(m), FixedHeadLen(m) + 12))
    /\ midi_range_ok(BER_u32(SettingsBytes(m), FixedHeadLen(m) + 16))

\* C3: decode of a buffer in which one mapping entry is malformed (truncated
\* head, missing or out-of-bounds nested frame, list count larger than the
\* entries present) raises no exception and returns a record for every
\* other, well-formed mapping.
C3_MalformedMappingTolerated ==
    HasMalformed(input) =>
        /\ status # "raised"
        /\ status = "returned" =>
              \A i \in 1..Len(input.maps) :
                  input.maps[i].shape = "ok" =>
                      \E k \in 1..Len(rows) :
                          /\ rows[k].traktor_control_id = I(input.maps[i].ctrl)
                          /\ rows[k].midi_binding_id = I(input.maps[i].bid)

IsM(c) == c.kind = "M"
IsB(c) == c.kind = "B"

\* Every entry of every binding list of the container, in byte order
AllBindings(children) ==
    Flatten([i \in 1..Len(children) |-> children[i].entries])

\* The name a binding id has in the table of all binding lists, a later
\* entry overriding an earlier one
ExpectedName(children, id) ==
    LET all == AllBindings(children)
        at == {i \in 1..Len(all) : all[i].id = id}
    IN  IF at = {} THEN None
        ELSE Some(all[CHOOSE i \in at : \A j \in at : j <= i].name)

\* The container's children with the mapping list moved to the front
MappingListFirst(children) == SelectSeq(children, IsM) \o SelectSeq(children, IsB)

\* C4: in one mappings container the binding name of every record is the
\* lookup of its binding id in the table built from all binding lists of
\* the container, later entries overriding earlier ones, wherever the lists
\* stand relative to the mapping list; the container with the mapping list
\* moved to the front decodes to the same records.
C4_BindingsFromAllLists ==
    Decoded =>
        /\ Len(rows) = Len(input.maps)
        /\ \A k \in 1..Len(rows) :
              /\ rows[k].midi_binding_id = I(input.maps[k].bid)
              /\ rows[k].midi_note = ExpectedName(input.children, input.maps[k].bid)
        /\ rows = parse_device(DeviceBytes(input, MappingListFirst(input.children)),
                      HeaderLen,
                      Len(DeviceBytes(input, MappingListFirst(input.children))),
                      cast_enums).rows

\* The mapping list stands before both binding lists, the second of which
\* overrides the first on the id the record uses
C4_Witness ==
    /\ Decoded
    /\ input.children = <<ChildM, ListOld, ListNew>>
    /\ Len(rows) > 0
    /\ rows[1].midi_binding_id = I(5)
    /\ rows[1].midi_note = Some(NameA)

LedFields ==
    {"led_min_controller", "led_max_controller", "led_min_midi", "led_max_midi",
     "led_invert", "led_blend"}
ResolutionFields == {"resolution_raw", "resolution_dword"}

C6_SetValueOnlyDirect ==
    Decoded =>
        \A k \in 1..Len(rows) :
            /\ WholeSettings(input.maps[k])
                  => rows[k].interaction_mode_raw = Some(input.maps[k].imode)
            /\ rows[k].interaction_mode_raw # Some(I(3))
                  => rows[k].set_value_to = None

\* A record of interaction mode 99 whose target slot holds 1.0
C6_Witness ==
    /\ Decoded
    /\ \E k \in 1..Len(rows) :
          /\ WholeSettings(input.maps[k])
          /\ input.maps[k].imode = I(99) /\ input.maps[k].svt = F_1_0
          /\ rows[k].interaction_mode_raw = Some(I(99))
          /\ rows[k].set_value_to = None

\* The definition the description gives the binding name, if any
DefinedEncoderMode(s, name) ==
    IF name = Some(s.defname) THEN Some(s.def.enc)
    ELSE IF name = Some(NameB) THEN Some(I(1))
    ELSE None

\* The resolution code written into the trailing block
ResolutionWritten(m) == BER_u32(SettingsBytes(m), FixedHeadLen(m) + 32)

\* C7: for every enumerated field (mapping type, controller type,
\* interaction mode, deck scope, resolution code, encoder mode) a record
\* stores a resolved variant and the raw integer; the resolved field is
\* absent when the raw integer is outside the known set and the raw field
\* still equals the value read.  Stated for the default decoder, which
\* resolves enums.
C7_ResolvedAndRaw ==
    (Decoded /\ cast_enums) =>
        \A k \in 1..Len(rows) :
            LET r == rows[k]
                m == input.maps[k]
                signed == IF m.deck.hi > 32767 THEN W(m.deck.hi - Limb, m.deck.lo)
                          ELSE m.deck
            IN  /\ r.mapping_type_raw = Some(I(m.mtype))
                /\ r.mapping_type = EnumOf(MappingType, I(m.mtype))
                /\ WholeSettings(m) =>
                      /\ r.controller_type_raw = Some(m.ctype)
                      /\ r.controller_type = EnumOf(ControllerType, m.ctype)
                      /\ r.interaction_mode_raw = Some(m.imode)
                      /\ r.interaction_mode = EnumOf(InteractionMode, m.imode)
                      /\ r.deck_scope_raw = Some(m.deck)
                      /\ r.deck_scope = EnumOf(MappingTargetDeck, signed)
                /\ (TailAccepted(m) /\ m.mtype = 1) =>
                      /\ r.resolution_dword = Some(ResolutionWritten(m))
                      /\ r.resolution_raw = EnumOf(MappingResolution, ResolutionWritten(m))
                /\ DefinedEncoderMode(input, r.midi_note) # None =>
                      /\ r.midi_encoder_mode
                            = EnumOf(MidiEncoderMode, DefinedEncoderMode(input, r.midi_note)[1])
                      /\ "midi_encoder_mode_raw" \in DOMAIN r
                      /\ r["midi_encoder_mode_raw"] = DefinedEncoderMode(input, r.midi_note)

\* The raw deck scope as a signed 32-bit integer
Signed32(v) == IF v.hi > 32767 THEN W(v.hi - Limb, v.lo) ELSE v

\* C8: the deck scope of a record is the raw u32 reinterpreted as signed
\* 32-bit before enum resolution: v when v <= 0x7FFFFFFF, v - 2^32
\* otherwise; raw 0xFFFFFFFF gives deck_scope -1 and never 4294967295.
C8_DeckScopeSigned ==
    Decoded =>
        \A k \in 1..Len(rows) :
            /\ WholeSettings(input.maps[k])
                  => rows[k].deck_scope_raw = Some(input.maps[k].deck)
            /\ rows[k].deck_scope # Some(AllOnes)
            /\ rows[k].deck_scope_raw # None =>
                  rows[k].deck_scope =
                      IF cast_enums
                      THEN EnumOf(MappingTargetDeck, Signed32(rows[k].deck_scope_raw[1]))
                      ELSE Some(Signed32(rows[k].deck_scope_raw[1]))
            /\ rows[k].deck_scope_raw = Some(AllOnes)
                  => rows[k].deck_scope = Some(I(-1))

\* A record whose raw deck scope is 0xFFFFFFFF
C8_Witness ==
    /\ Decoded
    /\ \E k \in 1..Len(rows) :
          /\ input.maps[k].deck = AllOnes
          /\ rows[k].deck_scope_raw = Some(AllOnes)
          /\ rows[k].deck_scope = Some(I(-1))

-----------------------------------------------------------------------------
(* Further properties of the walker *)

\* A tag from the alphabet at s whose declared payload runs past e
FaultyHeaderAt(d, s, e) ==
    /\ s + HeaderLen <= e
    /\ \A i \in 1..4 : d[s + i] \in TagAlphabet
    /\ s + HeaderLen + DeclaredSize(d, s) > e

\* C11: walk yields no node for a header whose declared payload length runs
\* past the end of the scanned range and raises no exception on it: in
\* every step that yields, the node lies inside the range being scanned
\* (range start <= start, start + 8 <= end, end <= range end), and no step
\* of walk ends in an exception.
C11_YieldedWithinRange ==
    [][/\ status' # "raised"
       /\ Len(yielded') > Len(yielded) =>
             /\ Top.start <= yielded'[Len(yielded')].start
             /\ yielded'[Len(yielded')].start + HeaderLen <= yielded'[Len(yielded')].end
             /\ yielded'[Len(yielded')].end <= Top.end]_vars

\* A header at offset 0 declares more payload than the buffer holds; walk
\* returned without a node for it and with a node for a later frame
C11_Witness ==
    /\ status = "returned"
    /\ FaultyHeaderAt(data, 0, Len(data))
    /\ YieldedAt(0) = {}
    /\ Len(yielded) > 0


\* The length of the range a walk() scans
RangeLen(g) == g.end - g.start

\* C15: walk terminates on every finite buffer: every iteration of a
\* walk()'s loop moves its cursor strictly forward (a resync by at least one
\* byte, a frame by its header and payload), every recursive call scans a
\* range strictly shorter than its caller's, and the walk returns.
C15_Terminates ==
    /\ [][/\ Len(stack') = Len(stack) => Top'.off > Top.off
          /\ Len(stack') = Len(stack) + 1 =>
                /\ RangeLen(Top') < RangeLen(Top)
                /\ stack'[Len(stack)].off > Top.off
                /\ Top'.end >= stack'[Len(stack)].off
          /\ (Len(stack') = Len(stack) - 1 /\ Len(stack') > 0) =>
                /\ Top'.off = Top.end
                /\ Top'.off >= stack[Len(stack) - 1].off]_vars
    /\ <>(status = "returned")

\* A walk that has returned after resyncing over junk and recursing into a
\* frame that holds a frame
C15_Witness ==
    /\ entry = "walk" /\ status = "returned"
    /\ YieldedAt(0) = {}
    /\ \E i, j \in 1..Len(yielded) :
          /\ yielded[i].start + HeaderLen <= yielded[j].start
          /\ yielded[j].end <= yielded[i].end

\* C16: when the 4 bytes at the walker's cursor p look like a tag but
\* reading the header raises, the walker resumes scanning at p + 1.
C16_FaultResyncsOneByte ==
    [][(/\ TopScanning
        /\ looks_like_id(TopHead)
        /\ read_frame_header(data, Top.off, Top.end).exc)
            => /\ Len(stack') = Len(stack)
               /\ Top'.off = Top.off + 1]_vars
-----------------------------------------------------------------------------
(* Further properties of the decoder *)

\* What the device data holds before its child i: the target of the last
\* target frame, 0 without one
TargetBefore(s, i) ==
    LET at == {j \in 1..(i - 1) : s.devdata[j].kind = "I"}
    IN  IF at = {} THEN 0 ELSE s.devdata[CHOOSE j \in at : \A l \in at : l <= j].target

\* The names a definitions frame of the description defines
DefinedBy(s, c) == IF c.alt THEN {s.defname} ELSE {s.defname, NameB}

\* The definition a definitions frame of the description gives a name
DefinitionIn(s, c, name) ==
    IF c.alt THEN AltDef
    ELSE IF name = s.defname THEN s.def
    ELSE [vel |-> F_0_5, enc |-> I(1), cid |-> I(7)]

\* The definition of a binding name in the definitions frames before child
\* i of the device data, a later frame overriding an earlier one
DefinitionBefore(s, i, name) ==
    LET at == {j \in 1..(i - 1) :
                  /\ s.devdata[j].kind = "D"
                  /\ name # None /\ name[1] \in DefinedBy(s, s.devdata[j])}
    IN  IF at = {} THEN None
        ELSE Some(DefinitionIn(s, s.devdata[CHOOSE j \in at : \A l \in at : l <= j],
                      name[1]))

\* The only mappings container of a description that has one
TheContainer(s) == CHOOSE i \in Containers(s) : TRUE

\* The fields a record takes from the settings frame
SettingsFields ==
    {"controller_type", "interaction_mode", "deck_scope", "auto_repeat", "invert",
     "soft_takeover", "rotary_sensitivity", "rotary_acceleration", "set_value_to",
     "mod1_id", "mod1_val", "mod2_id", "mod2_val",
     "led_min_controller", "led_max_controller", "led_min_midi", "led_max_midi",
     "led_invert", "led_blend", "resolution_raw", "comment", "comment_raw_hex",
     "controller_type_raw", "interaction_mode_raw", "deck_scope_raw",
     "resolution_dword"}

\* The record of a mapping whose nested frame is not a settings frame
IsMinimalRecord(s, m, r) ==
    LET name == ExpectedName(s.children, m.bid)
        def == DefinitionBefore(s, TheContainer(s), name)
    IN  /\ r.device_name = <<75>>
        /\ r.device_target = I(TargetBefore(s, TheContainer(s)))
        /\ r.traktor_control_id = I(m.ctrl)
        /\ r.midi_binding_id = I(m.bid)
        /\ r.mapping_type_raw = Some(I(m.mtype))
        /\ r.midi_note = name
        /\ \A f \in DOMAIN midi_fields(NoBinding) :
              r[f] = midi_fields(with_fallback(parse_binding_name(name)))[f]
        /\ r.midi_default_velocity = (IF def = None THEN None ELSE Some(def[1].vel))
        /\ r.midi_encoder_mode =
              (IF def = None THEN None ELSE encoder_mode_of(Some(def[1].enc)))
        /\ r.midi_control_id =
              (IF def = None THEN None
               ELSE IF def[1].cid = AllOnes THEN Some(I(-1)) ELSE Some(def[1].cid))
        /\ \A f \in SettingsFields : r[f] = None

\* C12: a mapping entry whose nested frame is not a settings frame (CMAD)
\* gives a minimal record: device name, device target, controller id,
\* binding id, raw mapping type and the enrichment from its binding name and
\* definition, with every settings field absent; the entries after it are
\* still decoded, each to its own record with its settings.
C12_MinimalRecord ==
    Decoded =>
        /\ Len(rows) = Len(input.maps)
        /\ \A k \in 1..Len(rows) :
              /\ rows[k].traktor_control_id = I(input.maps[k].ctrl)
              /\ input.maps[k].nested # TagCMAD
                    => IsMinimalRecord(input, input.maps[k], rows[k])
              /\ WholeSettings(input.maps[k])
                    => rows[k].interaction_mode_raw = Some(input.maps[k].imode)

\* A minimal record with a parsed binding name and a definition, followed
\* by the record of a whole mapping
C12_Witness ==
    /\ Decoded
    /\ \E k \in 1..(Len(rows) - 1) :
          /\ input.maps[k].nested = TagXXXX
          /\ rows[k].midi_channel # None /\ rows[k].midi_number # None
          /\ rows[k].midi_default_velocity # None
          /\ rows[k].interaction_mode_raw = None
          /\ rows[k + 1].interaction_mode_raw # None

\* The description with the device data cut after its child i
CutAfter(s, i) == [s EXCEPT !.devdata = SubSeq(s.devdata, 1, i)]

\* How many mappings containers the device data holds up to its child i
ContainersUpTo(s, i) == Cardinality({c \in Containers(s) : c <= i})

\* The record of mapping m decoded from the container that is child c of
\* the device data carries the target and the definition in force there
CarriesContext(s, c, m, r) ==
    LET def == DefinitionBefore(s, c, ExpectedName(s.children, m.bid))
    IN  /\ r.device_target = I(TargetBefore(s, c))
        /\ r.midi_default_velocity =
              (IF def = None THEN None
               ELSE IF m.nested = TagCMAD THEN clean_f(Some(def[1].vel))
               ELSE Some(def[1].vel))
        /\ r.midi_encoder_mode =
              (IF def = None THEN None ELSE encoder_mode_of(Some(def[1].enc)))
        /\ r.midi_control_id =
              (IF def = None THEN None
               ELSE IF def[1].cid = AllOnes THEN Some(I(-1)) ELSE Some(def[1].cid))

\* C14: every record decoded from a mappings container carries as device
\* target the value of the last target frame (DDIF) before that container
\* in the same device-data frame, 0 when none precedes it, and is enriched
\* only from the definitions frames (DDDC) before the container; target and
\* definitions frames after the container do not change its records: the
\* device data cut right after the container decodes to the same records.
C14_ContextBeforeContainer ==
    (status = "returned" /\ ~HasMalformed(input)) =>
        /\ Len(rows) = Cardinality(Containers(input)) * Len(input.maps)
        /\ \A c \in Containers(input) :
              /\ \A k \in 1..Len(input.maps) :
                    CarriesContext(input, c, input.maps[k],
                        rows[(ContainersUpTo(input, c) - 1) * Len(input.maps) + k])
              /\ SubSeq(rows, 1, ContainersUpTo(input, c) * Len(input.maps))
                    = parse_device(DeviceBytes(CutAfter(input, c), input.children),
                          HeaderLen,
                          Len(DeviceBytes(CutAfter(input, c), input.children)),
                          cast_enums).rows

\* Two containers in one device-data frame, a target frame and a
\* definitions frame before each: the records of the first keep target 2
\* and control id 7, those of the second have target 3 and control id 9
C14_Witness ==
    /\ status = "returned"
    /\ input.devdata = <<ChildI(2), ChildD(FALSE), ChildC, ChildI(3), ChildD(TRUE), ChildC>>
    /\ Len(rows) = 2 * Len(input.maps) /\ Len(input.maps) > 0
    /\ rows[1].device_target = I(2)
    /\ rows[1].midi_control_id = Some(I(7))
    /\ rows[Len(rows)].device_target = I(3)
    /\ rows[Len(input.maps) + 1].midi_control_id = Some(I(9))

\* A context for decoding a settings frame on its own
LoneContext ==
    [device_name |-> <<75>>, device_name_raw_hex |-> <<0, 75>>, device_target |-> I(0),
     midi_bindings |-> EmptyDict, midi_bindings_raw_hex |-> EmptyDict,
     midi_defs |-> EmptyDict, cast_enums |-> cast_enums]

\* Where decoding the settings frame written for m leaves the settings
\* cursor, as an offset into the frame's payload
SettingsCursor(m) ==
    read_settings(SettingsBytes(m), 0, Len(SettingsBytes(m)), LoneContext,
        I(m.bid), I(m.mtype), I(m.ctrl)).sr_off

\* The four-byte field at byte i of the trailing block written for m
TailField(m, i) == BER_u32(SettingsBytes(m), FixedHeadLen(m) + i)

\* The record holds the trailing block written for m
TailKept(m, r) ==
    /\ r.led_min_controller = clean_f(Some(TailField(m, 0)))
    /\ r.led_max_controller = clean_f(Some(TailField(m, 8)))
    /\ r.led_min_midi = Some(TailField(m, 12))
    /\ r.led_max_midi = Some(TailField(m, 16))
    /\ r.led_invert = Some(TailField(m, 20))
    /\ r.led_blend = Some(TailField(m, 24))
    /\ r.resolution_dword = Some(TailField(m, 32))
    /\ r.resolution_raw = (IF cast_enums THEN EnumOf(MappingResolution, TailField(m, 32))
                           ELSE Some(TailField(m, 32)))

\* C18: for an OUT mapping the trailing block is all or nothing: its fields
\* are kept and the settings cursor is moved to the frame end exactly when
\* precisely 40 bytes remain after the fixed head and both MIDI bounds are
\* in 0..127; in every other case (fewer than 40 bytes, more than 40, a
\* MIDI bound above 127) every LED and resolution field is absent, none is
\* partially filled, and the cursor stays where the fixed head ended.
C18_TailAllOrNothing ==
    Decoded =>
        \A k \in 1..Len(rows) :
            (/\ input.maps[k].mtype = 1
             /\ input.maps[k].nested = TagCMAD) =>
                IF TailAccepted(input.maps[k])
                THEN /\ TailKept(input.maps[k], rows[k])
                     /\ SettingsCursor(input.maps[k]) = Len(SettingsBytes(input.maps[k]))
                ELSE /\ \A f \in LedFields \cup ResolutionFields : rows[k][f] = None
                     /\ Len(SettingsBytes(input.maps[k])) >= FixedHeadLen(input.maps[k])
                           => SettingsCursor(input.maps[k]) = FixedHeadLen(input.maps[k])

\* A rejected block that was read: the record of an OUT mapping with 40
\* bytes or more after the fixed head, a MIDI bound of 128 or 4 bytes too
\* many, has no LED field and the cursor is at the end of the fixed head
C18_Witness ==
    /\ Decoded
    /\ \E k \in 1..Len(rows) :
          /\ input.maps[k].mtype = 1 /\ input.maps[k].nested = TagCMAD
          /\ input.maps[k].tail \in {"badmidi", "badmin", "long"}
          /\ input.maps[k].cut = None
          /\ Len(SettingsBytes(input.maps[k])) >= FixedHeadLen(input.maps[k]) + TailLen
          /\ rows[k].led_max_midi = None
          /\ SettingsCursor(input.maps[k]) = FixedHeadLen(input.maps[k])

\* C21: for every record, full or minimal, whose binding name has an entry
\* in the definitions in force, the record's default velocity, encoder mode
\* and control id are those of the entry (a control id of 0xFFFFFFFF
\* becoming -1), the same on the full and on the minimal path; when the
\* binding id is unresolved or the name has no entry all three are absent,
\* and decode raises nothing.  The encoder mode is compared for the modes
\* the decoder knows.
C21_DefinitionMerged ==
    /\ ~HasMalformed(input) /\ Cardinality(Containers(input)) = 1 => status # "raised"
    /\ Decoded =>
          \A k \in 1..Len(rows) :
              LET def == DefinitionBefore(input, TheContainer(input),
                             ExpectedName(input.children, input.maps[k].bid))
              IN  IF def = None
                  THEN /\ rows[k].midi_default_velocity = None
                       /\ rows[k].midi_encoder_mode = None
                       /\ rows[k].midi_control_id = None
                  ELSE /\ rows[k].midi_default_velocity = Some(def[1].vel)
                       /\ def[1].enc \in MidiEncoderMode
                             => rows[k].midi_encoder_mode = Some(def[1].enc)
                       /\ rows[k].midi_control_id =
                             (IF def[1].cid = AllOnes THEN Some(I(-1))
                              ELSE Some(def[1].cid))

-----------------------------------------------------------------------------
(* parse_binding_name as a call of its own: the name is in `data`, the     *)
(* description it was built from in `input`, the tuple returned in         *)
(* `result`; the decoder's number fallback follows as in parser.py 397-401 *)

\* midi.py 37-86: parse_binding_name(name) returns
ParseBindingName ==
    /\ entry = "name" /\ status = "running"
    /\ result' = parse_binding_name(data)
    /\ status' = "parsed"
    /\ UNCHANGED <<data, entry, cast_enums, stack, yielded, rows, input>>

\* parser.py 399-401: the caller fills a missing number from the note name
NumberFallback ==
    /\ entry = "name" /\ status = "parsed"
    /\ result' = with_fallback(result)
    /\ status' = "returned"
    /\ UNCHANGED <<data, entry, cast_enums, stack, yielded, rows, input>>

NextNames == ParseBindingName \/ NumberFallback

(* Binding names *)

MaxOctave == 9     \* pitch tails have octaves -2 .. MaxOctave

\* str(n) for n >= 0
RECURSIVE DecimalText(_)
DecimalText(n) ==
    IF n < 10 THEN <<48 + n>> ELSE Append(DecimalText(n \div 10), 48 + (n % 10))

OctaveText(o) == IF o < 0 THEN <<45>> \o DecimalText(0 - o) ELSE DecimalText(o)

PitchLetters == (65..71) \cup (97..103)       \* A-G, a-g
Accidentals == {<<>>, <<35>>, <<98>>}           \* none, #, b

\* The tails of the pitch grammar [A-Ga-g][#b]?-?digits
PitchTails ==
    {<<l>> \o a \o OctaveText(o) :
        l \in PitchLetters, a \in Accidentals, o \in (0 - 2)..MaxOctave}

\* '064', '0B', '11', 'zz', '', '0x1F', '1_0', '+7', '-3', 'G#', 'H3', 'C##3', 'C3x', 'c 3', '7F', ' 5', 'Cb-'
OtherTails ==
    {<<48, 54, 52>>,
     <<48, 66>>,
     <<49, 49>>,
     <<122, 122>>,
     <<>>,
     <<48, 120, 49, 70>>,
     <<49, 95, 48>>,
     <<43, 55>>,
     <<45, 51>>,
     <<71, 35>>,
     <<72, 51>>,
     <<67, 35, 35, 51>>,
     <<67, 51, 120>>,
     <<99, 32, 51>>,
     <<55, 70>>,
     <<32, 53>>,
     <<67, 98, 45>>}

\* The text after "Ch": '05', '1', '16', '', 'x7', ' 3'
ChannelTexts ==
    {<<48, 53>>,
     <<49>>,
     <<49, 54>>,
     <<>>,
     <<120, 55>>,
     <<32, 51>>}

\* 'Note', 'NOTE', 'note', ' Note ', 'CC', 'cc', 'Control', 'PitchBend', 'Prog', ''
EventTexts ==
    {<<78, 111, 116, 101>>,
     <<78, 79, 84, 69>>,
     <<110, 111, 116, 101>>,
     <<32, 78, 111, 116, 101, 32>>,
     <<67, 67>>,
     <<99, 99>>,
     <<67, 111, 110, 116, 114, 111, 108>>,
     <<80, 105, 116, 99, 104, 66, 101, 110, 100>>,
     <<80, 114, 111, 103>>,
     <<>>}

NameOf(ch, event, tail) == <<67, 104>> \o ch \o <<46>> \o event \o <<46>> \o tail

\* The names written as Ch<ch>.<event>.<tail>, as descriptions
NameDescriptions ==
    {[kind |-> "name", ch |-> <<48, 53>>, event |-> <<78, 111, 116, 101>>, tail |-> t] :
        t \in PitchTails \cup OtherTails}
    \cup {[kind |-> "name", ch |-> c, event |-> e, tail |-> t] :
        c \in ChannelTexts, e \in EventTexts,
        t \in OtherTails \cup {<<67, 35, 51>>, <<67, 98, 51>>, <<103, 45, 49>>}}

\* Names outside the grammar: no name, the empty name, two segments, four
\* segments, no Ch prefix
OtherNames ==
    {None, Some(<<>>), Some(<<67, 104, 48, 53, 46, 78, 111, 116, 101>>), Some(<<67, 104, 48, 53, 46, 78, 111, 116, 101, 46, 67, 35, 51, 46, 120>>),
     Some(<<99, 104, 48, 53, 46, 78, 111, 116, 101, 46, 67, 35, 51>>), Some(<<67>>)}

InitNames ==
    /\ input \in NameDescriptions \cup {[kind |-> "other", name |-> n] : n \in OtherNames}
    /\ data = (IF input.kind = "name"
               THEN Some(NameOf(input.ch, input.event, input.tail))
               ELSE input.name)
    /\ entry = "name"
    /\ cast_enums = TRUE
    /\ stack = <<>>
    /\ yielded = <<>>
    /\ rows = <<>>
    /\ status = "running"
    /\ result = None

SpecNames == InitNames /\ [][NextNames]_vars

-----------------------------------------------------------------------------
(* Properties of parse_binding_name *)

\* A call on a name written as Ch<ch>.<event>.<tail> has returned
NameParsed == entry = "name" /\ status = "parsed" /\ input.kind = "name"

AllDigits(s) == s # <<>> /\ \A i \in 1..Len(s) : IsDigit(s[i])

\* The description is of a name Ch<digits>.Note.<Tail>, Tail without blanks
\* around it
IsNoteName(s) ==
    /\ AllDigits(s.ch)
    /\ upper(s.event) = EventNOTE
    /\ strip(s.tail) = s.tail

Returned(ch, event, number, note_name) ==
    [ch |-> ch, event |-> event, number |-> number, note_name |-> note_name]

C19_EventNormalized ==
    (NameParsed /\ input.event # <<>> /\ strip(input.event) = input.event) =>
        result.event =
            Some(IF upper(input.event) = EventNOTE THEN EventNOTE
                 ELSE IF upper(input.event) \in {EventCC, EventCONTROL} THEN EventCC
                 ELSE upper(input.event))

\* The value of a natural letter, and what an accidental adds to it
NaturalSemitone(letter) ==
    CASE letter = 67 -> 0 [] letter = 68 -> 2 [] letter = 69 -> 4 [] letter = 70 -> 5
      [] letter = 71 -> 7 [] letter = 65 -> 9 [] letter = 66 -> 11

AccidentalShift(a) == IF a = <<35>> THEN 1 ELSE IF a = <<98>> THEN 0 - 1 ELSE 0

\* The number of a tail of the pitch grammar, by the formula
PitchByFormula(m) ==
    (int_of(m.octave, 10)[1] + 1) * 12
        + NaturalSemitone(upper(m.letter)[1]) + AccidentalShift(m.accidental)

\* C20: for every NOTE tail matching the pitch grammar
\* [A-Ga-g][#b]?-?digits the number is (octave + 1) * 12 + semitone, the
\* semitone being the natural letter's value plus 1 for a sharp and minus 1
\* for a flat, for every letter and accidental the grammar admits (Cb, Fb,
\* E#, B# included), and the note name returned is the tail; stated for
\* what parse_binding_name returns and for what the decoder's fallback
\* leaves.
C20_PitchNumber ==
    (/\ entry = "name" /\ status \in {"parsed", "returned"} /\ input.kind = "name"
     /\ IsNoteName(input)
     /\ note_name_match(input.tail) # None) =>
        /\ result.number = Some(I(PitchByFormula(note_name_match(input.tail)[1])))
        /\ result.note_name = Some(input.tail)

-----------------------------------------------------------------------------
(* beio.py: a BER over a sub-view of a buffer, read call by call.  The one *)
(* entry of `stack` is the reader: start and end as given to BER(data,     *)
(* off, end), off the cursor; `result` is what the last call returned.     *)

MaxBufLen == 6     \* bytes in the buffer a reader is opened on
MaxRead == 3       \* the largest n of a bytes(n) call

Reader == stack[1]
ReaderOpen == entry = "read" /\ status = "running"

\* The call returns v and has moved the cursor by n
Returns(v, n) ==
    /\ result' = Some(v)
    /\ stack' = [stack EXCEPT ![1].off = @ + n]
    /\ status' = status

\* The call raises (IndexError, struct.error) with the cursor where it was
Raises ==
    /\ result' = None
    /\ stack' = stack
    /\ status' = "raised"

\* BER.u8
ReadU8 ==
    /\ ReaderOpen
    /\ IF Reader.off >= Len(data) THEN Raises
       ELSE Returns([kind |-> "u8", value |-> data[Reader.off + 1]], 1)
    /\ UNCHANGED <<data, entry, cast_enums, yielded, rows, input>>

\* BER.u32
ReadU32 ==
    /\ ReaderOpen
    /\ IF BER_u32_raises(data, Reader.off) THEN Raises
       ELSE Returns([kind |-> "u32", value |-> BER_u32(data, Reader.off)], 4)
    /\ UNCHANGED <<data, entry, cast_enums, yielded, rows, input>>

\* BER.f32, the float as its bit pattern
ReadF32 ==
    /\ ReaderOpen
    /\ IF BER_u32_raises(data, Reader.off) THEN Raises
       ELSE Returns([kind |-> "f32", value |-> BER_u32(data, Reader.off)], 4)
    /\ UNCHANGED <<data, entry, cast_enums, yielded, rows, input>>

\* BER.bytes(n); calls are followed while the cursor is within MaxRead of
\* the buffer's end
ReadBytes ==
    /\ ReaderOpen
    /\ Reader.off <= Len(data) + MaxRead
    /\ \E n \in 0..MaxRead :
          Returns([kind |-> "bytes",
                   value |-> Slice(data, Reader.off, Reader.off + n)], n)
    /\ UNCHANGED <<data, entry, cast_enums, yielded, rows, input>>

\* BER.wstr_prefixed; a length of 65536 or more moves the cursor beyond any
\* buffer
ReadWstrPrefixed ==
    /\ ReaderOpen
    /\ IF BER_u32_raises(data, Reader.off) THEN Raises
       ELSE Returns([kind |-> "wstr",
                     value |-> decode_utf16be(
                         Slice(data, Reader.off + 4,
                               Reader.off + 4 + AsLen(BER_u32(data, Reader.off)) * 2))],
                    4 + AsLen(BER_u32(data, Reader.off)) * 2)
    /\ UNCHANGED <<data, entry, cast_enums, yielded, rows, input>>

NextRead == ReadU8 \/ ReadU32 \/ ReadF32 \/ ReadBytes \/ ReadWstrPrefixed

\* BER(data, off, end) over every buffer of bytes 0 and 1 up to MaxBufLen
\* long and every sub-view of it
InitRead ==
    /\ data \in SeqsUpTo({0, 1}, MaxBufLen)
    /\ input = [kind |-> "bytes"]
    /\ entry = "read"
    /\ cast_enums = TRUE
    /\ \E off \in 0..Len(data), end \in 0..Len(data) :
          /\ off <= end
          /\ stack = <<[start |-> off, off |-> off, end |-> end]>>
    /\ yielded = <<>>
    /\ rows = <<>>
    /\ status = "running"
    /\ result = None

SpecRead == InitRead /\ [][NextRead]_vars

\* C17: on a BER over a sub-view [off, end) of a longer buffer no read (u8,
\* u32, f32, bytes(n), wstr_prefixed) returns after consuming bytes at or
\* beyond end: a call that returns leaves the cursor inside the sub-view,
\* any other call raises.
C17_ReadsStayInView ==
    (entry = "read" /\ status = "running") => Reader.off <= Reader.end

====
